---------------------------- MODULE Spec2Model ----------------------------
(***************************************************************************)
(* A model of the context-assistant services:                              *)
(*   - ChatService (the streaming conversation engine): sendMessage,       *)
(*     abort, the NDJSON read loop, the message log and its persistence;   *)
(*   - IntegrationInjector (the capability bridge): injectIntegration,     *)
(*     injectScript, waitForAPI, getAPI, clear.                            *)
(* JavaScript is single-threaded: an action is the code that runs between  *)
(* two suspension points (an await, a timer, an event).                    *)
(***************************************************************************)
EXTENDS Integers, Sequences, FiniteSets, TLC

(***************************************************************************)
(* Bounds of the model.                                                    *)
(***************************************************************************)
MaxCalls == 3        \* sendMessage calls in one behaviour of SpecChat
MaxLines == 3        \* lines of one NDJSON response in SpecStream
MaxAcquire == 2      \* injectIntegration calls in one behaviour of SpecBridge
PollCalls == 1       \* injectIntegration calls in one behaviour of SpecPoll
MaxLog == 11         \* length of the log up to which addMessage is called in SpecHistory
HistSends == 1       \* sendMessage calls in one behaviour of SpecHistory and SpecPersist
AgentSends == 1      \* sendMessage calls in one behaviour of SpecAgents
PersistLog == 1      \* length of the log up to which addMessage is called in SpecPersist

(***************************************************************************)
(* Program constants.                                                      *)
(***************************************************************************)
MAX_MESSAGES == 10
MaxWait == 5000              \* waitForAPI's maxWait, in ms
PollInterval == 100          \* the delay of waitForAPI's and checkReady's timers, in ms

Null == "null"               \* JavaScript null (agent lookups)
Undefined == "undefined"     \* an omitted agentId argument
NoController == 0            \* currentAbortController = null
AgentIds == {"a1"}
Texts == {<<"hi">>}
CancelMarker == <<"[Request cancelled]">>
ErrorMarker == <<"Error: message">>

\* An AgentConfig, as far as the code reads it: its name, its personality
\* traits (Absent for a trait that is undefined) and its isDefault flag.
Absent == -1
TraitNames == <<"curious", "organized", "friendly", "zany", "sarcastic">>
NoTraits == [t \in {TraitNames[i] : i \in 1..Len(TraitNames)} |-> Absent]
NoConfig == [name |-> Null, personalityTraits |-> NoTraits, isDefault |-> FALSE]
AllAgentIds == {"a1", "a2", "a3"}

\* the store in which the agents ids are saved with the traits given, the
\* flag isDefault set on def
ConfigsFor(ids, def, traits) ==
  [id \in AllAgentIds |->
     IF id \in ids
     THEN [name |-> id, personalityTraits |-> traits, isDefault |-> (id = def)]
     ELSE NoConfig]

VARIABLES
  agents,                  \* ids in the agent store (localStorage)
  agentConfig,             \* per id, the stored AgentConfig (NoConfig if none)
  defaultAgentId,          \* the default-agent pointer, or Null
  persistChatHistory,      \* the persistence flag of the settings
  now,                     \* Date.now()
  messages,                \* ChatService.messages, the log
  stored,                  \* the sessionStorage conversation window
  currentAbortController,  \* the call whose AbortController is current, or NoController
  aborted,                 \* the calls whose AbortController has been aborted
  call,                    \* per sendMessage call: its position and locals
  lastOp                   \* the operation or continuation that ran last

chatVars == <<agents, agentConfig, defaultAgentId, persistChatHistory, now, messages,
              stored, currentAbortController, aborted, call, lastOp>>

VARIABLES
  injectedTypes,           \* IntegrationInjector.injectedTypes
  integrationAPIs,         \* IntegrationInjector.integrationAPIs: type -> handle
  scripts,                 \* per type, the script elements appended to the peer document
  cleared,                 \* whether clear() has been called
  acq                      \* per injectIntegration call: its position and locals

bridgeVars == <<injectedTypes, integrationAPIs, scripts, cleared, acq>>

VARIABLES
  iframeMap,               \* IframeManager.iframeMap: the registered pane types
  activeType,              \* IframeManager.activeType, or Null
  iframeOf,                \* per type, the iframe element iframeMap holds (NoIframe if none)
  activeIframe,            \* IframeManager.activeIframe, or NoIframe
  display,                 \* per iframe element, its style.display
  isSending,               \* ChatPanel.isSending
  awaiting,                \* the ChatService.sendMessage calls the panel awaits
  draft,                   \* the text of the chat input
  scene,                   \* the scene tree the active pane's API returns
  mentions,                \* the descriptors last computed by extractMentionedObjects
  searchQuery,             \* the value of the mention menu's search input
  mentionList              \* what the mention menu lists: the forest of a search, the items of the open menu

menuVars == <<searchQuery, mentionList>>

registryVars == <<iframeMap, activeType, iframeOf, activeIframe, display>>

panelVars == <<registryVars, isSending, awaiting, draft, scene, mentions, menuVars>>

vars == <<chatVars, bridgeVars, panelVars>>

Calls == 1..MaxCalls

(***************************************************************************)
(* Messages.  A content is a sequence of text pieces; ref is the identity  *)
(* of the JavaScript object (the log holds references).                    *)
(***************************************************************************)
NoMessage == [ref |-> 0, id |-> <<0, 0>>, role |-> "none", content |-> <<>>,
              agentId |-> Null, agentName |-> Null]

generateMessageId(t, r) == <<t, r>>

LastN(s, n) == IF Len(s) <= n THEN s ELSE SubSeq(s, Len(s) - n + 1, Len(s))

\* (mutant) the window keeps the oldest entries
getOldestMessages(msgs) ==
  IF Len(msgs) <= MAX_MESSAGES THEN msgs ELSE SubSeq(msgs, 1, MAX_MESSAGES)

getRecentMessages(msgs) == LastN(msgs, MAX_MESSAGES)

\* JSON.stringify of the messages: a snapshot, which holds no object reference
Stringify(msgs) ==
  [i \in 1..Len(msgs) |->
     [id |-> msgs[i].id, role |-> msgs[i].role, content |-> msgs[i].content,
      agentId |-> msgs[i].agentId, agentName |-> msgs[i].agentName]]

\* (mutant) the agent metadata is lost on the way back
ParseLosesAgent(st) ==
  [i \in 1..Len(st) |->
     [ref |-> 0, id |-> st[i].id, role |-> st[i].role, content |-> st[i].content,
      agentId |-> Null, agentName |-> Null]]

\* JSON.parse of a stored window: new objects, none of them a call's message
Parse(st) ==
  [i \in 1..Len(st) |->
     [ref |-> 0, id |-> st[i].id, role |-> st[i].role, content |-> st[i].content,
      agentId |-> st[i].agentId, agentName |-> st[i].agentName]]

\* (mutant) the save does not look at the persistence setting
SaveAlways(flag, msgs, st) == Stringify(getRecentMessages(msgs))

\* saveHistory: the window store after a save of msgs, st being its content
\* before; flag is what shouldPersistChatHistory() returns
SaveIf(flag, msgs, st) == IF flag THEN Stringify(getRecentMessages(msgs)) ELSE st

saveHistory(msgs, st) == SaveIf(persistChatHistory, msgs, st)

\* loadHistory: the log of an engine constructed over the window store st
loadHistory(flag, st) == IF flag THEN Parse(st) ELSE <<>>

\* a sendMessage that leaves the user message as it was appended
SetContentSkipped(msgs, ref, content) == msgs

\* assignment to a field of a message object: every log slot holding the object sees it
SetContent(msgs, ref, content) ==
  [i \in 1..Len(msgs) |->
     IF msgs[i].ref = ref THEN [msgs[i] EXCEPT !.content = content] ELSE msgs[i]]

FindIndex(msgs, id) ==
  IF \E i \in 1..Len(msgs) : msgs[i].id = id
  THEN CHOOSE i \in 1..Len(msgs) :
         msgs[i].id = id /\ \A j \in 1..(i - 1) : msgs[j].id # id
  ELSE 0

\* updateMessage: <<log, window store>> after the call
updateMessage(msgs, st, message) ==
  LET index == FindIndex(msgs, message.id) IN
  IF index > 0
  THEN LET m2 == [msgs EXCEPT ![index] = message] IN <<m2, saveHistory(m2, st)>>
  ELSE <<msgs, st>>

(***************************************************************************)
(* Agent lookups (AgentService as ChatService uses it).                    *)
(***************************************************************************)
getAgent(id) == IF id \in agents THEN id ELSE Null

getDefaultAgent == IF defaultAgentId = Null THEN Null ELSE getAgent(defaultAgentId)

ResolveAgent(agentId) ==
  IF agentId # Undefined THEN getAgent(agentId) ELSE getDefaultAgent

(***************************************************************************)
(* The NDJSON wire.  A response body is a sequence of tokens: a JSON       *)
(* object is written as  open, body, close  and a line ends with  nl.      *)
(* A body token carries message.content (c) and done (d).                  *)
(***************************************************************************)
NoContent == "none"
Tok(k, c, d) == [k |-> k, c |-> c, d |-> d]
Open == Tok("open", NoContent, FALSE)
Close == Tok("close", NoContent, FALSE)
NL == Tok("nl", NoContent, FALSE)
Junk == Tok("junk", NoContent, FALSE)
Frame(c, d) == Tok("body", c, d)

\* JSON.stringify(frame) + '\n'
EncodeLine(f) == IF f.k = "body" THEN <<Open, f, Close, NL>> ELSE <<f, NL>>

RECURSIVE Encode(_)
Encode(fs) == IF fs = <<>> THEN <<>> ELSE EncodeLine(Head(fs)) \o Encode(Tail(fs))

\* chunk.split('\n')
RECURSIVE Split(_)
Split(s) ==
  IF \A i \in 1..Len(s) : s[i].k # "nl" THEN <<s>>
  ELSE LET i == CHOOSE i \in 1..Len(s) :
                   s[i].k = "nl" /\ \A j \in 1..(i - 1) : s[j].k # "nl"
       IN <<SubSeq(s, 1, i - 1)>> \o Split(SubSeq(s, i + 1, Len(s)))

\* JSON.parse(line): only a whole object parses
JsonParse(line) ==
  IF Len(line) = 3 /\ line[1].k = "open" /\ line[2].k = "body" /\ line[3].k = "close"
  THEN [ok |-> TRUE, json |-> line[2]]
  ELSE [ok |-> FALSE, json |-> Junk]

Truthy(c) == c \notin {NoContent, ""}

\* (mutant) a line that does not parse ends the loop over the chunk's lines
RECURSIVE ProcessLinesStopOnJunk(_, _)
ProcessLinesStopOnJunk(lines, st) ==
  IF lines = <<>> THEN st
  ELSE LET line == Head(lines)
           p == JsonParse(line)
       IN IF Len(line) = 0 THEN ProcessLinesStopOnJunk(Tail(lines), st)
          ELSE IF ~p.ok THEN st
          ELSE LET st1 == IF Truthy(p.json.c)
                          THEN [st EXCEPT !.fullContent = Append(@, p.json.c),
                                          !.chunks = Append(@, p.json.c),
                                          !.updated = TRUE]
                          ELSE st
               IN IF p.json.d THEN [st1 EXCEPT !.sawDone = TRUE]
                  ELSE ProcessLinesStopOnJunk(Tail(lines), st1)

\* the for loop over the lines of one chunk; st = the loop's locals
RECURSIVE ProcessLines(_, _)
ProcessLines(lines, st) ==
  IF lines = <<>> THEN st
  ELSE LET line == Head(lines)
           p == JsonParse(line)
       IN IF Len(line) = 0 \/ ~p.ok THEN ProcessLines(Tail(lines), st)
          ELSE LET st1 == IF Truthy(p.json.c)
                          THEN [st EXCEPT !.fullContent = Append(@, p.json.c),
                                          !.chunks = Append(@, p.json.c),
                                          !.updated = TRUE]
                          ELSE st
               IN IF p.json.d THEN [st1 EXCEPT !.sawDone = TRUE]
                  ELSE ProcessLines(Tail(lines), st1)

(***************************************************************************)
(* ChatService.sendMessage.                                                *)
(***************************************************************************)
IdleCall == [pc |-> "idle", asst |-> NoMessage, fullContent |-> <<>>,
             wire |-> <<>>, sent |-> <<>>, chunks |-> <<>>, err |-> "none",
             sawDone |-> FALSE, closed |-> FALSE, request |-> <<>>]

\* The system prompt is a sequence of text pieces, as a content is.
PositivePhrase ==
  [curious   |-> "You are curious and like to explore new ideas",
   organized |-> "You are organized and methodical",
   friendly  |-> "You are friendly and supportive",
   zany      |-> "You have a zany, creative personality",
   sarcastic |-> "You have a sarcastic sense of humor"]

NegativePhrase ==
  [curious   |-> "You are cautious and prefer proven solutions",
   organized |-> "You are flexible and adaptable",
   friendly  |-> "You are challenging and push for better solutions",
   zany      |-> "You are sober and professional",
   sarcastic |-> "You are serious and straightforward"]

NegativePole ==
  [curious |-> "cautious", organized |-> "flexible", friendly |-> "challenging",
   zany |-> "sober", sarcastic |-> "serious"]

\* `${phrase} (${pct}% ${pole}).`
TraitDescription(phrase, pct, pole) == <<phrase, " (", ToString(pct), "% ", pole, ").">>

\* (mutant) a neutral trait is described as its positive pole
TraitLineNeutralKept(traits, t) ==
  IF traits[t] # Absent
  THEN IF traits[t] >= 50
       THEN <<TraitDescription(PositivePhrase[t], traits[t], t)>>
       ELSE <<TraitDescription(NegativePhrase[t], 100 - traits[t], NegativePole[t])>>
  ELSE <<>>

\* one of the five if blocks of buildSystemPrompt: what it pushes for trait t
TraitLine(traits, t) ==
  IF traits[t] # Absent /\ traits[t] # 50
  THEN IF traits[t] > 50
       THEN <<TraitDescription(PositivePhrase[t], traits[t], t)>>
       ELSE <<TraitDescription(NegativePhrase[t], 100 - traits[t], NegativePole[t])>>
  ELSE <<>>

\* lines.join(sep)
RECURSIVE Join(_, _)
Join(lines, sep) ==
  IF lines = <<>> THEN <<>>
  ELSE IF Len(lines) = 1 THEN lines[1]
  ELSE lines[1] \o <<sep>> \o Join(Tail(lines), sep)

PromptIntro(name) ==
  <<"You are ", name, ", an AI assistant helping users with three.js development.\n\n">>

PromptClosing ==
  <<"You help users understand three.js concepts, debug code, and build 3D applications. \nProvide clear, helpful explanations and code examples when relevant.">>

\* ChatService.buildSystemPrompt(agent)
buildSystemPrompt(agent) ==
  LET traits == agent.personalityTraits
      traitDescriptions ==
        TraitLine(traits, "curious") \o TraitLine(traits, "organized")
          \o TraitLine(traits, "friendly") \o TraitLine(traits, "zany")
          \o TraitLine(traits, "sarcastic")
  IN PromptIntro(agent.name)
       \o (IF Len(traitDescriptions) > 0
           THEN <<"Personality traits:\n">> \o Join(traitDescriptions, "\n") \o <<"\n\n">>
           ELSE <<>>)
       \o PromptClosing

\* ollamaMessages without the slice(0, -1): the placeholder goes out too
ollamaMessagesWithPlaceholder(systemPrompt, msgs, enhancedContent) ==
  LET recentMessages == getRecentMessages(msgs)
  IN <<[role |-> "system", content |-> systemPrompt]>>
       \o [i \in 1..Len(recentMessages) |->
            [role |-> recentMessages[i].role, content |-> recentMessages[i].content]]
       \o <<[role |-> "user", content |-> enhancedContent]>>

\* the ollamaMessages of sendMessage: the system prompt, the recent messages
\* but the last, the enhanced content
ollamaMessages(systemPrompt, msgs, enhancedContent) ==
  LET recentMessages == getRecentMessages(msgs)
      sliced == SubSeq(recentMessages, 1, Len(recentMessages) - 1)
  IN <<[role |-> "system", content |-> systemPrompt]>>
       \o [i \in 1..Len(sliced) |-> [role |-> sliced[i].role, content |-> sliced[i].content]]
       \o <<[role |-> "user", content |-> enhancedContent]>>

\* this.currentAbortController?.signal.aborted
CurrentSignalAborted(cur, ab) == cur # NoController /\ cur \in ab

\* "Abort previous request if any", then the new controller
AbortPrevious(cur, ab) == IF cur # NoController THEN ab \cup {cur} ELSE ab

\* (mutant) the agent check placed after the user message has been appended
ThrowNoAgentAfterAppend(c, content, r1) ==
  LET userMessage == [ref |-> 2 * c - 1, id |-> generateMessageId(now, r1),
                      role |-> "user", content |-> content, agentId |-> Null,
                      agentName |-> Null]
      m1 == Append(messages, userMessage)
  IN /\ messages' = m1
     /\ stored' = saveHistory(m1, stored)
     /\ call' = [call EXCEPT ![c].pc = "rejected", ![c].err = "NoAgent"]
     /\ UNCHANGED <<agents, agentConfig, defaultAgentId, persistChatHistory, now,
                    currentAbortController, aborted>>

\* the throw of "No agent selected": the promise rejects, nothing else happens
ThrowNoAgent(c, content, r1) ==
  /\ call' = [call EXCEPT ![c].pc = "rejected", ![c].err = "NoAgent"]
  /\ UNCHANGED <<agents, agentConfig, defaultAgentId, persistChatHistory, now, messages,
                 stored, currentAbortController, aborted>>

\* from the two addMessage calls to the fetch that ollamaService.chat issues
StartRequest(c, agent, content, mentioned, r1, r2) ==
  LET userMessage == [ref |-> 2 * c - 1, id |-> generateMessageId(now, r1),
                      role |-> "user", content |-> content, agentId |-> Null,
                      agentName |-> Null]
      assistantMessage == [ref |-> 2 * c, id |-> generateMessageId(now, r2),
                           role |-> "assistant", content |-> <<>>, agentId |-> agent,
                           agentName |-> agentConfig[agent].name]
      m1 == Append(messages, userMessage)
      s1 == saveHistory(m1, stored)
      m2 == Append(m1, assistantMessage)
      s2 == saveHistory(m2, s1)
      enhancedContent == IF Len(mentioned) > 0
                         THEN content \o <<"[Mentioned Scene Objects:">> \o mentioned \o <<"]">>
                         ELSE content
      m3 == SetContent(m2, userMessage.ref, enhancedContent)
      systemPrompt == buildSystemPrompt(agentConfig[agent])
  IN /\ messages' = m3
     /\ stored' = s2
     /\ aborted' = AbortPrevious(currentAbortController, aborted)
     /\ currentAbortController' = c
     /\ call' = [call EXCEPT ![c].pc = "fetch", ![c].asst = assistantMessage,
                             ![c].request = ollamaMessages(systemPrompt, m3, enhancedContent)]
     /\ UNCHANGED <<agents, agentConfig, defaultAgentId, persistChatHistory, now>>

\* ChatService.sendMessage(content, agentId, onChunk, mentionedObjects), up to
\* its first suspension
sendMessageBody(c, content, agentId, mentioned, r1, r2) ==
  /\ call[c].pc = "idle"
  /\ \A d \in Calls : d < c => call[d].pc # "idle"
  /\ lastOp' = "sendMessage"
  /\ LET agent == ResolveAgent(agentId) IN
       IF agent = Null THEN ThrowNoAgent(c, content, r1)
       ELSE StartRequest(c, agent, content, mentioned, r1, r2)

sendMessage(c, content, agentId, mentioned, r1, r2) ==
  /\ sendMessageBody(c, content, agentId, mentioned, r1, r2)
  /\ UNCHANGED <<bridgeVars, panelVars>>

\* the finally block of sendMessage
FinallyController(cur, c) == NoController

\* (mutant) the cancellation marker is written over partial content
CatchContentOverwrites(isAbort, old) == IF isAbort THEN CancelMarker ELSE ErrorMarker

\* the content the catch block gives the assistant message
CatchContent(isAbort, old) ==
  IF isAbort THEN (IF old # <<>> THEN old ELSE CancelMarker) ELSE ErrorMarker

\* (mutant) the catch block swallows every error
RethrowNever(errName, curAborted) == FALSE

\* "Only throw if not aborted"
Rethrow(errName, curAborted) == errName # "AbortError" /\ ~curAborted

\* the catch block and the finally block, for an error named errName
CatchAndFinally(c, loc, errName) ==
  LET isAbort == errName = "AbortError"
                   \/ CurrentSignalAborted(currentAbortController, aborted)
      content == CatchContent(isAbort, loc.asst.content)
      asst2 == [loc.asst EXCEPT !.content = content]
      upd == updateMessage(SetContent(messages, asst2.ref, content), stored, asst2)
      rethrow == Rethrow(errName, CurrentSignalAborted(currentAbortController, aborted))
  IN /\ messages' = upd[1]
     /\ currentAbortController' = FinallyController(currentAbortController, c)
     /\ stored' = saveHistory(upd[1], upd[2])
     /\ call' = [call EXCEPT ![c] = [loc EXCEPT !.asst = asst2,
                                               !.pc = IF rethrow THEN "rejected" ELSE "resolved",
                                               !.err = errName]]
     /\ UNCHANGED <<agents, agentConfig, defaultAgentId, persistChatHistory, now, aborted>>

\* leaving the try block without an error: the finally block alone
Finally(c, loc, msgs, st) ==
  /\ messages' = msgs
  /\ currentAbortController' = FinallyController(currentAbortController, c)
  /\ stored' = saveHistory(msgs, st)
  /\ call' = [call EXCEPT ![c] = [loc EXCEPT !.pc = "resolved"]]
  /\ UNCHANGED <<agents, agentConfig, defaultAgentId, persistChatHistory, now, aborted>>

\* the top of the while loop: the abort check, then reader.read()
LoopTop(c, loc, msgs, st) ==
  IF CurrentSignalAborted(currentAbortController, aborted)
  THEN Finally(c, loc, msgs, st)
  ELSE /\ messages' = msgs
       /\ stored' = st
       /\ call' = [call EXCEPT ![c] = [loc EXCEPT !.pc = "read"]]
       /\ UNCHANGED <<agents, agentConfig, defaultAgentId, persistChatHistory, now,
                      currentAbortController, aborted>>

\* the fetch of ollamaService.chat settles
\* the locals of call c once its request has left: the request body is in
\* flight only while the fetch is pending
Fetched(c) == [call[c] EXCEPT !.request = <<>>]

FetchAborted(c) ==
  /\ call[c].pc = "fetch"
  /\ lastOp' = "settle"
  /\ UNCHANGED <<bridgeVars, panelVars>>
  /\ c \in aborted
  /\ CatchAndFinally(c, Fetched(c), "AbortError")

FetchFails(c, outcome) ==
  /\ call[c].pc = "fetch"
  /\ lastOp' = "settle"
  /\ UNCHANGED <<bridgeVars, panelVars>>
  /\ c \notin aborted
  /\ outcome \in {"network", "notOk", "noBody"}
  /\ CatchAndFinally(c, Fetched(c), "Error")

FetchOk(c, w) ==
  /\ call[c].pc = "fetch"
  /\ lastOp' = "settle"
  /\ UNCHANGED <<bridgeVars, panelVars>>
  /\ c \notin aborted
  /\ LoopTop(c, [Fetched(c) EXCEPT !.wire = w, !.sent = w], messages, stored)

\* reader.read() settles with a chunk, the first k tokens still on the wire:
\* the rest of the while loop's body and the top of its next round
ReadChunkBody(c, k) ==
  /\ call[c].pc = "read"
  /\ lastOp' = "settle"
  /\ UNCHANGED <<bridgeVars, panelVars>>
  /\ k \in 1..Len(call[c].wire)
  /\ LET chunk == SubSeq(call[c].wire, 1, k)
         st == ProcessLines(Split(chunk),
                            [fullContent |-> call[c].fullContent,
                             chunks |-> call[c].chunks,
                             updated |-> FALSE,
                             sawDone |-> call[c].sawDone])
         asst2 == IF st.updated
                  THEN [call[c].asst EXCEPT !.content = st.fullContent]
                  ELSE call[c].asst
         upd == IF st.updated
                THEN updateMessage(SetContent(messages, asst2.ref, asst2.content),
                                   stored, asst2)
                ELSE <<messages, stored>>
         loc == [call[c] EXCEPT !.wire = SubSeq(@, k + 1, Len(@)),
                                !.fullContent = st.fullContent,
                                !.chunks = st.chunks,
                                !.sawDone = st.sawDone,
                                !.asst = asst2]
     IN LoopTop(c, loc, upd[1], upd[2])

\* a read of a body whose fetch signal is not aborted
ReadChunk(c, k) ==
  /\ c \notin aborted
  /\ ReadChunkBody(c, k)

\* reader.read() settles with done: the transport has closed
ReadDone(c) ==
  /\ call[c].pc = "read"
  /\ lastOp' = "settle"
  /\ UNCHANGED <<bridgeVars, panelVars>>
  /\ c \notin aborted
  /\ call[c].wire = <<>>
  /\ Finally(c, [call[c] EXCEPT !.closed = TRUE], messages, stored)

\* reader.read() rejects: the connection failed
ReadFails(c) ==
  /\ call[c].pc = "read"
  /\ lastOp' = "settle"
  /\ UNCHANGED <<bridgeVars, panelVars>>
  /\ c \notin aborted
  /\ CatchAndFinally(c, call[c], "Error")

\* reader.read() rejects because the fetch's signal was aborted
ReadAborted(c) ==
  /\ call[c].pc = "read"
  /\ lastOp' = "settle"
  /\ UNCHANGED <<bridgeVars, panelVars>>
  /\ c \in aborted
  /\ CatchAndFinally(c, call[c], "AbortError")

(***************************************************************************)
(* ChatService.abort.                                                      *)
(***************************************************************************)
abortBody ==
  /\ lastOp' = "abort"
  /\ aborted' = AbortPrevious(currentAbortController, aborted)
  /\ currentAbortController' = NoController
  /\ UNCHANGED <<agents, agentConfig, defaultAgentId, persistChatHistory, now, messages,
                 stored, call>>

abort ==
  /\ abortBody
  /\ UNCHANGED <<bridgeVars, panelVars>>

(***************************************************************************)
(* IntegrationInjector.  The peer (the iframe, its document, the           *)
(* contextAssistantAPI object) is the environment: what the code observes  *)
(* of it is an input of the step that observes it.                         *)
(*   access: "throws"  touching contentWindow/contentDocument raises       *)
(*           "missing" one of them is null                                 *)
(*           "loading" both are there, readyState is 'loading'             *)
(*           "ready"   both are there, readyState is past 'loading'        *)
(*   api:    "absent"   no contextAssistantAPI, or no isReady on it        *)
(*           "notReady" isReady() returned false                           *)
(*           "ready"    isReady() returned true                            *)
(*           "throws"   the check raised                                   *)
(***************************************************************************)
IframeTypes == <<"editor", "playground", "manual", "docs">>
TypeSet == {IframeTypes[i] : i \in 1..Len(IframeTypes)}
Access == {"throws", "missing", "loading", "ready"}
ApiStates == {"absent", "notReady", "ready", "throws"}
Acquires == 1..MaxAcquire

NoAPI == [type |-> "none", ready |-> FALSE]
IdleAcq == [type |-> "none", phase |-> "idle", elapsed |-> 0, checks |-> 0,
            lastApi |-> "none", err |-> "none", retries |-> 0]

BridgeIdle ==
  /\ injectedTypes = {}
  /\ integrationAPIs = [t \in TypeSet |-> NoAPI]
  /\ scripts = [t \in TypeSet |-> 0]
  /\ cleared = FALSE
  /\ acq = [a \in Acquires |-> IdleAcq]

ChatIdle ==
  /\ agents = {}
  /\ defaultAgentId = Null
  /\ agentConfig = ConfigsFor(agents, defaultAgentId, NoTraits)
  /\ persistChatHistory = TRUE
  /\ now = 0
  /\ messages = <<>>
  /\ stored = <<>>
  /\ currentAbortController = NoController
  /\ aborted = {}
  /\ call = [c \in Calls |-> IdleCall]
  /\ lastOp = "init"

\* the scene of a pane with no objects: getSceneObjects() returns []
NoScene == [throws |-> FALSE, nodes |-> <<>>]

\* An iframe element is named by the loadIframe call that created it.
NoIframe == 0
Iframes == Acquires

\* IframeManager at construction; no iframe element has a display style yet
RegistryIdle ==
  /\ iframeMap = {}
  /\ activeType = Null
  /\ iframeOf = [t \in TypeSet |-> NoIframe]
  /\ activeIframe = NoIframe
  /\ display = [i \in Iframes |-> ""]

\* the mention menu has not been opened
MenuIdle ==
  /\ searchQuery = <<>>
  /\ mentionList = <<>>

PanelIdle ==
  /\ RegistryIdle
  /\ isSending = FALSE
  /\ awaiting = {}
  /\ draft = <<>>
  /\ scene = NoScene
  /\ mentions = <<>>
  /\ MenuIdle

Settle(a, loc, phase, err) ==
  acq' = [acq EXCEPT ![a] = [loc EXCEPT !.phase = phase, !.err = err]]

\* checkReady, having observed the peer as obs; retries is the parity of the
\* number of timers set by setTimeout(checkReady, 100)
checkReady(a, loc, obs) ==
  /\ CASE obs = "throws" -> Settle(a, loc, "rejected", "PeerUnreachable")
       [] obs = "missing" ->
            Settle(a, [loc EXCEPT !.retries = 1 - @], "retry", "none")
       [] obs = "loading" -> Settle(a, loc, "waitDCL", "none")
       [] OTHER -> Settle(a, loc, "script", "none")
  /\ UNCHANGED <<injectedTypes, integrationAPIs, scripts, cleared>>

\* The code treats every pane type alike: a call takes a type already used or
\* the first unused one.
UsedTypes == {acq[a].type : a \in {b \in Acquires : acq[b].phase # "idle"}}

NextTypes == {IframeTypes[i] : i \in 1..(IF Cardinality(UsedTypes) < Len(IframeTypes)
                                          THEN Cardinality(UsedTypes) + 1
                                          ELSE Len(IframeTypes))}

\* injectIntegration(iframe, t), up to its first suspension
injectIntegrationBody(a, t, obs) ==
     LET loc == [acq[a] EXCEPT !.type = t] IN
     IF t \in injectedTypes
     THEN /\ Settle(a, loc, "resolved", "cached")
          /\ UNCHANGED <<injectedTypes, integrationAPIs, scripts, cleared>>
     ELSE CASE obs = "throws" ->
                 /\ Settle(a, loc, "rejected", "AccessError")
                 /\ UNCHANGED <<injectedTypes, integrationAPIs, scripts, cleared>>
            [] obs = "missing" ->
                 /\ Settle(a, loc, "waitLoad", "none")
                 /\ UNCHANGED <<injectedTypes, integrationAPIs, scripts, cleared>>
            [] OTHER -> checkReady(a, loc, obs)

\* a call of injectIntegration(iframe, t) that finds the peer document as obs
injectIntegration(a, t, obs) ==
  /\ acq[a].phase = "idle"
  /\ \A b \in Acquires : b < a => acq[b].phase # "idle"
  /\ t \in NextTypes
  /\ UNCHANGED <<chatVars, panelVars>>
  /\ injectIntegrationBody(a, t, obs)

\* the iframe's load event fires
LoadEvent(a, obs) ==
  /\ acq[a].phase = "waitLoad"
  /\ UNCHANGED <<chatVars, panelVars>>
  /\ checkReady(a, acq[a], obs)

\* the timer of setTimeout(checkReady, 100) fires
RetryTimer(a, obs) ==
  /\ acq[a].phase = "retry"
  /\ UNCHANGED <<chatVars, panelVars>>
  /\ checkReady(a, acq[a], obs)

\* the peer document's DOMContentLoaded event fires
DOMContentLoaded(a) ==
  /\ acq[a].phase = "waitDCL"
  /\ UNCHANGED <<chatVars, panelVars>>
  /\ Settle(a, acq[a], "script", "none")
  /\ UNCHANGED <<injectedTypes, integrationAPIs, scripts, cleared>>

\* (mutant) the API is there, isReady() is not consulted
ApiPresent(r) == r \in {"ready", "notReady"}

\* the test of waitForAPI's check: the API is there and isReady() returned true
ApiIsReady(r) == r = "ready"

\* (mutant) the bound compared against twice maxWait
TimedOutLate(elapsed) == elapsed > 2 * MaxWait

\* Date.now() - startTime > maxWait
TimedOut(elapsed) == elapsed > MaxWait

\* (mutant) a check that stores the handle as soon as the API object is there,
\* before isReady() and the clock are looked at
checkStoresFirst(a, loc0, r) ==
  LET loc == [loc0 EXCEPT !.checks = @ + 1, !.lastApi = r]
  IN /\ UNCHANGED <<injectedTypes, cleared>>
     /\ integrationAPIs' =
          IF r \in {"ready", "notReady"}
          THEN [integrationAPIs EXCEPT ![loc.type] = [type |-> loc.type, ready |-> (r = "ready")]]
          ELSE integrationAPIs
     /\ IF r = "throws" THEN Settle(a, loc, "rejected", "CheckError")
        ELSE IF ApiIsReady(r) THEN Settle(a, loc, "apiSet", "none")
        ELSE IF TimedOut(loc.elapsed) THEN Settle(a, loc, "rejected", "Timeout")
        ELSE Settle(a, loc, "poll", "none")

\* waitForAPI's check(), having observed the API as r
check(a, loc0, r) ==
  LET loc == [loc0 EXCEPT !.checks = @ + 1, !.lastApi = r]
  IN /\ UNCHANGED <<injectedTypes, cleared>>
     /\ IF r = "throws"
        THEN /\ Settle(a, loc, "rejected", "CheckError")
             /\ UNCHANGED integrationAPIs
        ELSE IF ApiIsReady(r)
        THEN /\ integrationAPIs' =
                  [integrationAPIs EXCEPT ![loc.type] =
                     [type |-> loc.type, ready |-> (r = "ready")]]
             /\ Settle(a, loc, "apiSet", "none")
        ELSE IF TimedOut(loc.elapsed)
        THEN /\ Settle(a, loc, "rejected", "Timeout")
             /\ UNCHANGED integrationAPIs
        ELSE /\ Settle(a, loc, "poll", "none")
             /\ UNCHANGED integrationAPIs

\* injectScript after the await of getIntegrationScript: the script element is
\* created and appended, then waitForAPI starts and runs its first check
injectScript(a, appendOk, r) ==
  /\ acq[a].phase = "script"
  /\ UNCHANGED <<chatVars, panelVars>>
  /\ IF ~appendOk
     THEN /\ Settle(a, acq[a], "rejected", "InjectionFailed")
          /\ UNCHANGED <<injectedTypes, integrationAPIs, scripts, cleared>>
     ELSE /\ scripts' = [scripts EXCEPT ![acq[a].type] = @ + 1]
          /\ check(a, [acq[a] EXCEPT !.elapsed = 0], r)

\* the timer of setTimeout(check, 100) fires, delay ms after it was set
PollTimer(a, delay, r) ==
  /\ acq[a].phase = "poll"
  /\ UNCHANGED <<chatVars, panelVars>>
  /\ scripts' = scripts
  /\ check(a, [acq[a] EXCEPT !.elapsed = @ + delay], r)

\* injectScript after the await of waitForAPI
InjectedAdd(a) ==
  /\ acq[a].phase = "apiSet"
  /\ UNCHANGED <<chatVars, panelVars>>
  /\ injectedTypes' = injectedTypes \cup {acq[a].type}
  /\ Settle(a, acq[a], "resolved", "ok")
  /\ UNCHANGED <<integrationAPIs, scripts, cleared>>

getAPI(t) == integrationAPIs[t]

isInjected(t) == t \in injectedTypes

clear ==
  /\ UNCHANGED <<chatVars, panelVars>>
  /\ injectedTypes' = {}
  /\ integrationAPIs' = [t \in TypeSet |-> NoAPI]
  /\ cleared' = TRUE
  /\ UNCHANGED <<scripts, acq>>

(***************************************************************************)
(* SpecBridge: overlapping injectIntegration calls.  Here every timer of   *)
(* waitForAPI fires after a stall longer than maxWait, so a call polls at  *)
(* most twice; SpecPoll follows the poll loop tick by tick.                *)
(***************************************************************************)
StallDelay == MaxWait + PollInterval

InitBridge == ChatIdle /\ BridgeIdle /\ PanelIdle

NextBridge ==
  \/ \E a \in Acquires, t \in TypeSet, obs \in Access : injectIntegration(a, t, obs)
  \/ \E a \in Acquires, obs \in Access : LoadEvent(a, obs)
  \/ \E a \in Acquires, obs \in Access : RetryTimer(a, obs)
  \/ \E a \in Acquires : DOMContentLoaded(a)
  \/ \E a \in Acquires, appendOk \in BOOLEAN, r \in ApiStates : injectScript(a, appendOk, r)
  \/ \E a \in Acquires, r \in ApiStates : PollTimer(a, StallDelay, r)
  \/ \E a \in Acquires : InjectedAdd(a)
  \/ clear

SpecBridge == InitBridge /\ [][NextBridge]_vars

\* The event loop runs every pending continuation and fires every pending
\* timer, and the browser delivers every event a call waits for (load,
\* DOMContentLoaded).  What the peer shows when it is looked at (contentDocument
\* null or not, the API ready or not) stays the environment's choice.
SpecBridgeFair ==
  /\ SpecBridge
  /\ \A a \in Acquires :
       /\ WF_vars(\E obs \in Access : LoadEvent(a, obs))
       /\ WF_vars(\E obs \in Access : RetryTimer(a, obs))
       /\ WF_vars(DOMContentLoaded(a))
       /\ WF_vars(\E appendOk \in BOOLEAN, r \in ApiStates : injectScript(a, appendOk, r))
       /\ WF_vars(\E r \in ApiStates : PollTimer(a, StallDelay, r))
       /\ WF_vars(InjectedAdd(a))

(***************************************************************************)
(* SpecPoll: the poll loop of waitForAPI.  A timer fires on time or after  *)
(* a stall longer than maxWait.                                            *)
(***************************************************************************)
Pollers == 1..PollCalls

NextPoll ==
  \/ \E a \in Pollers, t \in TypeSet, obs \in Access : injectIntegration(a, t, obs)
  \/ \E a \in Pollers, obs \in Access : LoadEvent(a, obs)
  \/ \E a \in Pollers, obs \in Access : RetryTimer(a, obs)
  \/ \E a \in Pollers : DOMContentLoaded(a)
  \/ \E a \in Pollers, appendOk \in BOOLEAN, r \in ApiStates : injectScript(a, appendOk, r)
  \/ \E a \in Pollers, delay \in {PollInterval, StallDelay}, r \in ApiStates :
       PollTimer(a, delay, r)
  \/ \E a \in Pollers : InjectedAdd(a)

SpecPoll == InitBridge /\ [][NextPoll]_vars

(***************************************************************************)
(* SpecChat: overlapping sendMessage calls and abort.                      *)
(***************************************************************************)
MaxWireLen == 4 * MaxLines

ChatWires == {Encode(<<Frame("He", FALSE), Frame(NoContent, TRUE)>>)}

InitChat ==
  /\ agents \in SUBSET AgentIds
  /\ defaultAgentId \in AgentIds \cup {Null}
  /\ agentConfig = ConfigsFor(agents, defaultAgentId, NoTraits)
  /\ persistChatHistory \in BOOLEAN
  /\ now = 0
  /\ messages = <<>>
  /\ stored = <<>>
  /\ currentAbortController = NoController
  /\ aborted = {}
  /\ call = [c \in Calls |-> IdleCall]
  /\ lastOp = "init"
  /\ BridgeIdle
  /\ PanelIdle

\* a transport that delivers whole lines
ReadLines(c, k) ==
  /\ k \in 1..Len(call[c].wire)
  /\ call[c].wire[k].k = "nl"
  /\ ReadChunk(c, k)

NextChat ==
  \/ \E c \in Calls, agentId \in AgentIds \cup {Undefined}, content \in Texts :
       sendMessage(c, content, agentId, <<>>, 2 * c - 1, 2 * c)
  \/ \E c \in Calls : FetchAborted(c)
  \/ \E c \in Calls, outcome \in {"network", "notOk", "noBody"} : FetchFails(c, outcome)
  \/ \E c \in Calls, w \in ChatWires : FetchOk(c, w)
  \/ \E c \in Calls, k \in 1..MaxWireLen : ReadLines(c, k)
  \/ \E c \in Calls : ReadDone(c)
  \/ \E c \in Calls : ReadFails(c)
  \/ \E c \in Calls : ReadAborted(c)
  \/ abort

SpecChat == InitChat /\ [][NextChat]_vars

(***************************************************************************)
(* SpecStream: one sendMessage call against any response of at most        *)
(* MaxLines lines, cut into chunks at any token.                           *)
(***************************************************************************)
LineKinds == {Frame("He", FALSE), Frame("llo", FALSE), Frame("", FALSE),
              Frame(NoContent, TRUE), Junk}

RECURSIVE LineSeqs(_)
LineSeqs(n) ==
  IF n = 0 THEN {<<>>}
  ELSE LineSeqs(n - 1) \cup
       {Append(fs, f) : fs \in {g \in LineSeqs(n - 1) : Len(g) = n - 1}, f \in LineKinds}

StreamWires == {Encode(fs) : fs \in LineSeqs(MaxLines)}

InitStream ==
  /\ agents = {"a1"}
  /\ defaultAgentId = "a1"
  /\ agentConfig = ConfigsFor(agents, defaultAgentId, NoTraits)
  /\ persistChatHistory = TRUE
  /\ now = 0
  /\ messages = <<>>
  /\ stored = <<>>
  /\ currentAbortController = NoController
  /\ aborted = {}
  /\ call = [c \in Calls |-> IdleCall]
  /\ lastOp = "init"
  /\ BridgeIdle
  /\ PanelIdle

NextStream ==
  \/ \E agentId \in AgentIds \cup {Undefined}, content \in Texts,
        mentioned \in {<<>>, <<"@cube (Mesh)">>} :
       sendMessage(1, content, agentId, mentioned, 1, 2)
  \/ FetchAborted(1)
  \/ \E outcome \in {"network", "notOk", "noBody"} : FetchFails(1, outcome)
  \/ \E w \in StreamWires : FetchOk(1, w)
  \/ \E k \in 1..MaxWireLen : ReadChunk(1, k)
  \/ ReadDone(1)
  \/ ReadFails(1)
  \/ ReadAborted(1)
  \/ abort

SpecStream == InitStream /\ [][NextStream]_vars

(***************************************************************************)
(* Claims about ChatService, checked under SpecChat.                       *)
(***************************************************************************)
\* a call that has issued its request and has not settled
InFlight(c) == call[c].pc \in {"fetch", "read"}

\* a call that is consuming a response stream and whose own token is not cancelled
LiveStream(c) == call[c].pc = "read" /\ c \notin aborted

\* C1: in every reachable state at most one sendMessage call is consuming a
\* transport stream whose cancellation token is not cancelled.
C1_AtMostOneLiveStream ==
  Cardinality({c \in Calls : LiveStream(c)}) <= 1

\* C2: when sendMessage B starts while sendMessage A is still streaming, A's token
\* is cancelled by the time B has issued its request, and the active-session
\* reference is then B's new token.
C2_SupersedeCancelsPrior ==
  [][\A b \in Calls :
       (call[b].pc = "idle" /\ call'[b].pc = "fetch")
         => /\ currentAbortController' = b
            /\ b \notin aborted'
            /\ \A a \in Calls \ {b} : call[a].pc = "read" => a \in aborted']_vars

\* C3: once abort() has returned, no generation is in flight with a token that is
\* not cancelled (abort() cancels the in-flight generation, whatever earlier
\* sessions were superseded or have finished).
C3_AbortCancelsInFlight ==
  lastOp = "abort" => \A c \in Calls : InFlight(c) => c \in aborted

\* The inputs for which no agent resolves: no explicit id and no default agent
\* (no default pointer, or a pointer to an agent that is not in the store), or
\* an explicit id that is not in the agent store.
NoAgentFor(agentId) ==
  \/ agentId = Undefined /\ (defaultAgentId = Null \/ defaultAgentId \notin agents)
  \/ agentId # Undefined /\ agentId \notin agents

\* C4: sendMessage with no resolvable agent fails with NoAgentSelected before any
\* mutation: the log, the persisted window, the active-session reference and the
\* tokens (so every generation in flight) are exactly as before the call.
C4_NoAgentNoMutation ==
  [][\A c \in Calls, agentId \in AgentIds \cup {Undefined}, content \in Texts :
       (sendMessage(c, content, agentId, <<>>, 2 * c - 1, 2 * c) /\ NoAgentFor(agentId))
         => /\ call'[c].pc = "rejected"
            /\ call'[c].err = "NoAgent"
            /\ UNCHANGED <<messages, stored, currentAbortController, aborted>>
            /\ \A d \in Calls \ {c} : call'[d] = call[d]]_vars

\* C4 witness: a send has just failed for want of an agent while an earlier
\* generation is in flight and the log is not empty.
C4_Witness ==
  /\ lastOp = "sendMessage"
  /\ \E c \in Calls : call[c].pc = "rejected" /\ call[c].err = "NoAgent"
  /\ \E d \in Calls : InFlight(d) /\ currentAbortController = d
  /\ Len(messages) > 0

(***************************************************************************)
(* Claims about IntegrationInjector.                                       *)
(***************************************************************************)
Settled(a) == acq[a].phase \in {"resolved", "rejected"}

\* C5: for every pane type, across any sequence and interleaving of acquire
\* calls, the bootstrap payload is injected into the peer at most once (clear(),
\* the reset used by tests, apart).
C5_InjectedAtMostOnce ==
  ~cleared => \A t \in TypeSet : scripts[t] <= 1

\* C6: getAPI(type) returns a handle only if, during an acquire for that type,
\* the peer's isReady() returned true for that handle.
C6_HandleOnlyAfterReady ==
  \A t \in TypeSet : getAPI(t) # NoAPI => getAPI(t).type = t /\ getAPI(t).ready

\* C6 witness: an acquire whose first check found the API not ready and whose
\* later check found it ready has resolved, and its handle is observable.
C6_Witness ==
  \E a \in Acquires :
    /\ acq[a].phase = "resolved" /\ acq[a].err = "ok" /\ acq[a].checks >= 2
    /\ getAPI(acq[a].type) # NoAPI

\* call a rejects in this step
Rejects(a) == acq[a].phase # "rejected" /\ acq'[a].phase = "rejected"

\* another call than a has stored the handle for type t or found t cached
OtherSucceeded(a, t) ==
  \E b \in Acquires \ {a} : acq[b].type = t /\ acq[b].phase \in {"apiSet", "resolved"}

C7_AcquireSettles ==
  \A a \in Acquires : [](acq[a].phase # "idle" => <>Settled(a))

\* C8: while isReady() has not returned true the acquire does not resolve; it
\* polls at most maxWait/interval + 2 times, stops polling once more than maxWait
\* has elapsed, and then rejects with Timeout.
C8_PollBoundedThenTimeout ==
  \A a \in Acquires :
    /\ acq[a].checks <= MaxWait \div PollInterval + 2
    /\ acq[a].phase = "poll" => acq[a].elapsed <= MaxWait
    /\ (acq[a].phase = "apiSet" \/ acq[a].err = "ok") => acq[a].lastApi = "ready"
    /\ (acq[a].phase = "rejected" /\ acq[a].lastApi \in {"absent", "notReady"})
         => acq[a].err = "Timeout" /\ acq[a].elapsed > MaxWait
    /\ acq[a].err = "Timeout" => acq[a].phase = "rejected" /\ acq[a].elapsed > MaxWait

\* C8 witness: an acquire polled on every tick, never saw the API ready, and was
\* rejected with Timeout at its last allowed check.
C8_Witness ==
  \E a \in Acquires :
    /\ acq[a].err = "Timeout"
    /\ acq[a].lastApi = "notReady"
    /\ acq[a].checks = MaxWait \div PollInterval + 2

(***************************************************************************)
(* Claims about the stream read loop, checked under SpecStream.            *)
(***************************************************************************)
\* the frames of a whole response, as a line-by-line reader would parse them
RECURSIVE ParsedLines(_)
ParsedLines(lines) ==
  IF lines = <<>> THEN <<>>
  ELSE IF Len(Head(lines)) = 0 THEN ParsedLines(Tail(lines))
  ELSE <<JsonParse(Head(lines))>> \o ParsedLines(Tail(lines))

FramesOf(w) == ParsedLines(Split(w))

\* every line is a valid frame, and the last frame, and only it, is terminal
ValidTerminated(w) ==
  LET fs == FramesOf(w) IN
  /\ Len(fs) > 0
  /\ \A i \in 1..Len(fs) : fs[i].ok /\ (fs[i].json.d <=> i = Len(fs))

RECURSIVE Deltas(_)
Deltas(fs) ==
  IF fs = <<>> THEN <<>>
  ELSE (IF Truthy(Head(fs).json.c) THEN <<Head(fs).json.c>> ELSE <<>>) \o Deltas(Tail(fs))

\* C9: if the transport closes without a frame with done=true having been
\* received, sendMessage fails: the assistant message holds the error marker and
\* the call rejects.
C9_StreamIncompleteIsError ==
  \A c \in Calls :
    (call[c].closed /\ ~call[c].sawDone)
      => call[c].pc = "rejected" /\ call[c].asst.content = ErrorMarker

\* C10: for valid frames ending in a terminal frame, however the transport cuts
\* the bytes into chunks, the final assistant content is the concatenation of the
\* deltas in order, and onChunk has been called once per non-empty delta, in order.
C10_ContentIsConcatenation ==
  \A c \in Calls :
    (call[c].closed /\ ValidTerminated(call[c].sent))
      => /\ call[c].asst.content = Deltas(FramesOf(call[c].sent))
         /\ call[c].chunks = Deltas(FramesOf(call[c].sent))
         /\ \E i \in 1..Len(messages) :
              messages[i].ref = call[c].asst.ref
                /\ messages[i].content = Deltas(FramesOf(call[c].sent))

(***************************************************************************)
(* The log's public operations, the persistence setting and the            *)
(* construction of a new engine over the same session storage.             *)
(***************************************************************************)
\* a message made by a caller of addMessage / updateMessage
ExtMessage(k, content) ==
  [ref |-> 0, id |-> <<-1, k>>, role |-> "user", content |-> content, agentId |-> Null,
   agentName |-> Null]

addMessage(message) ==
  /\ lastOp' = "addMessage"
  /\ messages' = Append(messages, message)
  /\ stored' = saveHistory(messages', stored)
  /\ UNCHANGED <<agents, agentConfig, defaultAgentId, persistChatHistory, now,
                 currentAbortController, aborted, call>>
  /\ UNCHANGED <<bridgeVars, panelVars>>

UpdateMessage(message) ==
  /\ lastOp' = IF FindIndex(messages, message.id) > 0 THEN "updateMessage" ELSE "updateMissing"
  /\ messages' = updateMessage(messages, stored, message)[1]
  /\ stored' = updateMessage(messages, stored, message)[2]
  /\ UNCHANGED <<agents, agentConfig, defaultAgentId, persistChatHistory, now,
                 currentAbortController, aborted, call>>
  /\ UNCHANGED <<bridgeVars, panelVars>>

clearHistory ==
  /\ lastOp' = "clearHistory"
  /\ messages' = <<>>
  /\ stored' = saveHistory(<<>>, stored)
  /\ UNCHANGED <<agents, agentConfig, defaultAgentId, persistChatHistory, now,
                 currentAbortController, aborted, call>>
  /\ UNCHANGED <<bridgeVars, panelVars>>

\* SettingsService.setPersistChatHistory
setPersistChatHistory(persist) ==
  /\ lastOp' = "setPersistChatHistory"
  /\ persistChatHistory' = persist
  /\ UNCHANGED <<agents, agentConfig, defaultAgentId, now, messages, stored,
                 currentAbortController, aborted, call>>
  /\ UNCHANGED <<bridgeVars, panelVars>>

\* new ChatService(), once the calls of the engine it replaces have settled
NewChatService ==
  /\ \A c \in Calls : call[c].pc \notin {"fetch", "read"}
  /\ lastOp' = "construct"
  /\ messages' = loadHistory(persistChatHistory, stored)
  /\ currentAbortController' = NoController
  /\ UNCHANGED <<agents, agentConfig, defaultAgentId, persistChatHistory, now, stored, aborted, call>>
  /\ UNCHANGED <<bridgeVars, panelVars>>

(***************************************************************************)
(* SpecHistory: the log and its persisted window with persistence enabled, *)
(* over HistSends sendMessage calls, the log's public operations and       *)
(* engine construction.  SpecPersist: the same with the persistence        *)
(* setting changing, over a shorter log.                                   *)
(***************************************************************************)
HistCalls == 1..HistSends

HistWires == {Encode(<<Frame("He", FALSE), Frame(NoContent, TRUE)>>)}

InitHistory ==
  /\ agents = {"a1"}
  /\ defaultAgentId = "a1"
  /\ agentConfig = ConfigsFor(agents, defaultAgentId, NoTraits)
  /\ persistChatHistory = TRUE
  /\ now = 0
  /\ messages = <<>>
  /\ stored = <<>>
  /\ currentAbortController = NoController
  /\ aborted = {}
  /\ call = [c \in Calls |-> IdleCall]
  /\ lastOp = "init"
  /\ BridgeIdle
  /\ PanelIdle

\* abort() while the engine holds a token
AbortCurrent ==
  /\ currentAbortController # NoController
  /\ abort

\* a caller appends a note while the log is shorter than limit
AddNote(limit) ==
  /\ Len(messages) < limit
  /\ addMessage(ExtMessage(1, <<"note">>))

\* the mentions a send comes with: the first send with or without one
HistMentions(c) == IF c = 1 THEN {<<>>, <<"@cube (Mesh)">>} ELSE {<<"@cube (Mesh)">>}

NextHistory ==
  \/ \E c \in HistCalls : \E mentioned \in HistMentions(c) :
       sendMessage(c, <<"hi">>, Undefined, mentioned, 2 * c - 1, 2 * c)
  \/ \E c \in HistCalls : FetchAborted(c)
  \/ \E c \in HistCalls : FetchFails(c, "network")
  \/ \E c \in HistCalls, w \in HistWires : FetchOk(c, w)
  \/ \E c \in HistCalls, k \in 1..MaxWireLen : ReadLines(c, k)
  \/ \E c \in HistCalls : ReadDone(c)
  \/ \E c \in HistCalls : ReadAborted(c)
  \/ AbortCurrent
  \/ AddNote(MaxLog)
  \/ UpdateMessage(ExtMessage(1, <<"edited">>))
  \/ clearHistory
  \/ NewChatService

SpecHistory == InitHistory /\ [][NextHistory]_vars

InitPersist ==
  /\ agents = {"a1"}
  /\ defaultAgentId = "a1"
  /\ agentConfig = ConfigsFor(agents, defaultAgentId, NoTraits)
  /\ persistChatHistory \in BOOLEAN
  /\ now = 0
  /\ messages = <<>>
  /\ stored = <<>>
  /\ currentAbortController = NoController
  /\ aborted = {}
  /\ call = [c \in Calls |-> IdleCall]
  /\ lastOp = "init"
  /\ BridgeIdle
  /\ PanelIdle

NextPersist ==
  \/ \E c \in HistCalls, mentioned \in {<<>>, <<"@cube (Mesh)">>} :
       sendMessage(c, <<"hi">>, Undefined, mentioned, 2 * c - 1, 2 * c)
  \/ \E c \in HistCalls : FetchAborted(c)
  \/ \E c \in HistCalls : FetchFails(c, "network")
  \/ \E c \in HistCalls, w \in HistWires : FetchOk(c, w)
  \/ \E c \in HistCalls, k \in 1..MaxWireLen : ReadLines(c, k)
  \/ \E c \in HistCalls : ReadDone(c)
  \/ \E c \in HistCalls : ReadAborted(c)
  \/ AbortCurrent
  \/ AddNote(PersistLog)
  \/ UpdateMessage(ExtMessage(1, <<"edited">>))
  \/ clearHistory
  \/ \E persist \in BOOLEAN : setPersistChatHistory(persist)
  \/ NewChatService

SpecPersist == InitPersist /\ [][NextPersist]_vars

(***************************************************************************)
(* SpecLines: one sendMessage call against any response of at most         *)
(* MaxLines lines, delivered in chunks that end at a line end.             *)
(***************************************************************************)
NextLines ==
  \/ \E agentId \in AgentIds \cup {Undefined}, content \in Texts,
        mentioned \in {<<>>, <<"@cube (Mesh)">>} :
       sendMessage(1, content, agentId, mentioned, 1, 2)
  \/ FetchAborted(1)
  \/ \E outcome \in {"network", "notOk", "noBody"} : FetchFails(1, outcome)
  \/ \E w \in StreamWires : FetchOk(1, w)
  \/ \E k \in 1..MaxWireLen : ReadLines(1, k)
  \/ ReadDone(1)
  \/ ReadFails(1)
  \/ ReadAborted(1)
  \/ abort

SpecLines == InitStream /\ [][NextLines]_vars

\* the lines of w that parse, in order
RECURSIVE ValidOnly(_)
ValidOnly(fs) ==
  IF fs = <<>> THEN <<>>
  ELSE (IF Head(fs).ok THEN <<Head(fs)>> ELSE <<>>) \o ValidOnly(Tail(fs))

\* the part of the response that call c has read
Consumed(c) == SubSeq(call[c].sent, 1, Len(call[c].sent) - Len(call[c].wire))

\* no line follows a frame with done=true
DoneOnlyLast(w) ==
  LET fs == FramesOf(w) IN
  \A i \in 1..Len(fs) : (fs[i].ok /\ fs[i].json.d) => i = Len(fs)

\* C11: a malformed line is skipped.  While a call reads a response (no frame
\* after a done frame), its content, the log's copy of it and the deltas handed
\* to onChunk are those of the valid frames read so far, as if the malformed
\* lines were not there; a call that has read a response to its end has
\* resolved without an error.
C11_MalformedLineSkipped ==
  \A c \in Calls :
    (call[c].pc \in {"read", "resolved"} /\ c \notin aborted
       /\ call[c].err = "none" /\ DoneOnlyLast(call[c].sent))
      => LET ds == Deltas(ValidOnly(FramesOf(Consumed(c)))) IN
         /\ call[c].fullContent = ds
         /\ call[c].asst.content = ds
         /\ call[c].chunks = ds
         /\ Len(messages) = 2
         /\ messages[2].ref = call[c].asst.ref /\ messages[2].content = ds
         /\ call[c].closed => call[c].pc = "resolved"

\* C11 witness: a response with a malformed line followed by a valid frame has
\* been read to its end, and the frame's delta is in the content.
C11_Witness ==
  \E c \in Calls :
    /\ call[c].closed /\ call[c].pc = "resolved"
    /\ LET fs == FramesOf(call[c].sent) IN
        \E i, j \in 1..Len(fs) :
          i < j /\ ~fs[i].ok /\ fs[j].ok /\ Truthy(fs[j].json.c)
    /\ call[c].asst.content # <<>>

(***************************************************************************)
(* Claims about the outcome of a sendMessage call, checked under SpecChat. *)
(***************************************************************************)
\* the log's entries that are the message object ref
LogEntries(ref) == {i \in 1..Len(messages) : messages[i].ref = ref}

\* C12: a sendMessage call whose token was cancelled (by abort() or by a later
\* sendMessage) completes without raising; its assistant message, in the call
\* and in the log, is the cancellation marker if no delta had been appended and
\* otherwise exactly the content received before the cancellation.
C12_CancelKeepsPartial ==
  \A c \in Calls :
    (c \in aborted /\ call[c].pc \in {"resolved", "rejected"})
      => /\ call[c].pc = "resolved"
         /\ call[c].asst.content =
              (IF call[c].fullContent # <<>> THEN call[c].fullContent ELSE CancelMarker)
         /\ LogEntries(call[c].asst.ref) # {}
         /\ \A i \in LogEntries(call[c].asst.ref) :
              messages[i].content = call[c].asst.content

\* C12 witness: one call was cancelled before any delta and ended as the marker,
\* another was cancelled after a delta and kept it.
C12_Witness ==
  \E c, d \in Calls :
    /\ c \in aborted /\ call[c].pc = "resolved" /\ call[c].asst.content = CancelMarker
    /\ d \in aborted /\ call[d].pc = "resolved" /\ call[d].fullContent # <<>>
    /\ call[d].asst.content = call[d].fullContent

\* C13: a sendMessage call that fails for a reason other than cancellation
\* (request rejected, non-OK response, no response stream, read error) rejects
\* with that error; its assistant message, in the call and in the log, is the
\* error marker, and the log holds the call's user message immediately followed
\* by that assistant message.
C13_FailureMarksAndRaises ==
  \A c \in Calls :
    call[c].err = "Error"
      => /\ call[c].pc = "rejected"
         /\ call[c].asst.content = ErrorMarker
         /\ \E i \in 1..(Len(messages) - 1) :
              /\ messages[i].ref = 2 * c - 1 /\ messages[i].role = "user"
              /\ messages[i + 1].ref = call[c].asst.ref
              /\ messages[i + 1].role = "assistant"
              /\ messages[i + 1].content = ErrorMarker

\* C13 witness: a call whose read failed after a delta had been appended was
\* rejected while another call was in flight.
C13_Witness ==
  \E c, d \in Calls :
    /\ call[c].pc = "rejected" /\ call[c].err = "Error" /\ call[c].fullContent # <<>>
    /\ c \notin aborted
    /\ InFlight(d)

(***************************************************************************)
(* Claims about the persisted window.                                      *)
(***************************************************************************)
\* the last min(10, n) entries of an n-entry log, as the store holds them
WindowOf(msgs) == Stringify(LastN(msgs, MAX_MESSAGES))

\* a step in which a sendMessage call that resolved an agent completes
SendCompletes ==
  \E c \in Calls : call[c].pc \in {"fetch", "read"}
                     /\ call'[c].pc \in {"resolved", "rejected"}

\* a step that is a completed operation writing the log
WritesLog ==
  \/ lastOp' \in {"addMessage", "updateMessage", "clearHistory"}
  \/ SendCompletes

C15_DisabledNeverWrites ==
  [][~persistChatHistory
       => /\ stored' = stored
          /\ lastOp' = "construct" => messages' = <<>>]_vars

\* C15 witness: with the flag disabled a sendMessage has completed, the store
\* still holds the older window, and an engine constructed then has an empty log.
C15_Witness ==
  /\ ~persistChatHistory
  /\ lastOp = "construct"
  /\ \E c \in Calls : call[c].pc = "resolved"
  /\ stored = Stringify(<<ExtMessage(1, <<"note">>)>>)
  /\ messages = <<>>

\* C37: clearHistory() empties the log and leaves nothing behind that an engine
\* constructed afterwards would load, whether the persistence flag is then
\* enabled or disabled.
C37_ClearIsFinal ==
  [][clearHistory
       => /\ messages' = <<>>
          /\ \A flag \in BOOLEAN : loadHistory(flag, stored') = <<>>]_vars

MaxTextLen == 4
MaxNodes == 2

Chars == {"@", "a", "b", " "}

\* "Unnamed", "Mesh" and "Group" each stand for that run of letters
WordChars == {"a", "b", "Unnamed", "Mesh", "Group"}

InputTexts == UNION {[1..k -> Chars] : k \in 0..MaxTextLen}

\* the last index of the maximal run of word characters that starts at i
RECURSIVE RunEnd(_, _)
RunEnd(text, i) ==
  IF i < Len(text) /\ text[i + 1] \in WordChars THEN RunEnd(text, i + 1) ELSE i

\* Array.from(content.matchAll(/@(\w+)/g), m => m[1]), scanning from index i
RECURSIVE MatchFrom(_, _)
MatchFrom(text, i) ==
  IF i > Len(text) THEN <<>>
  ELSE IF text[i] = "@" /\ i < Len(text) /\ text[i + 1] \in WordChars
  THEN LET j == RunEnd(text, i + 1)
       IN <<SubSeq(text, i + 1, j)>> \o MatchFrom(text, j + 1)
  ELSE MatchFrom(text, i + 1)

MatchAll(text) == MatchFrom(text, 1)

\* A scene is what api.getSceneObjects() does: it throws, or it returns a
\* forest.  Node i of the forest has parent nodes[i].par (0 for a root), and
\* the children of a node are in index order.
NoProperties == "undefined"

NodeKinds ==
  { [name |-> <<"a">>, type |-> "Mesh",  properties |-> NoProperties],
    [name |-> <<"a">>, type |-> "Group", properties |-> "visible"] }

NodesOf(k) ==
  { f \in [1..k -> [par : 0..(k - 1), kind : NodeKinds]] : \A i \in 1..k : f[i].par < i }

Scenes(n) == { [throws |-> FALSE, nodes |-> f] : f \in UNION {NodesOf(k) : k \in 0..n} }

ThrowingScene == [throws |-> TRUE, nodes |-> <<>>]

\* obj.children of node p (the top-level array for p = 0)
ChildrenOf(sc, p) ==
  SelectSeq([i \in 1..Len(sc.nodes) |-> i], LAMBDA i : sc.nodes[i].par = p)

\* (mutant) a flattenObjects that recurses with level instead of level + 1
RECURSIVE flattenObjectsSameLevel(_, _, _)
flattenObjectsSameLevel(sc, objects, level) ==
  IF objects = <<>> THEN <<>>
  ELSE LET obj == sc.nodes[Head(objects)].kind
           flatObj == [id |-> Head(objects), name |-> obj.name, type |-> obj.type,
                       properties |-> obj.properties, level |-> level]
       IN <<flatObj>> \o flattenObjectsSameLevel(sc, ChildrenOf(sc, Head(objects)), level)
                      \o flattenObjectsSameLevel(sc, Tail(objects), level)

\* ChatPanel.flattenObjects(objects, level): pre-order, children dropped; the
\* spread keeps the id of the object
RECURSIVE flattenObjects(_, _, _)
flattenObjects(sc, objects, level) ==
  IF objects = <<>> THEN <<>>
  ELSE LET obj == sc.nodes[Head(objects)].kind
           flatObj == [id |-> Head(objects), name |-> obj.name, type |-> obj.type,
                       properties |-> obj.properties, level |-> level]
       IN <<flatObj>> \o flattenObjects(sc, ChildrenOf(sc, Head(objects)), level + 1)
                      \o flattenObjects(sc, Tail(objects), level)

\* flattened.find(o => o.name === name): the index of the first one, 0 if none
FindByName(flattened, name) ==
  LET hits == {i \in 1..Len(flattened) : flattened[i].name = name}
  IN IF hits = {} THEN 0 ELSE CHOOSE i \in hits : \A j \in hits : i <= j

UnknownObject(name) == [name |-> name, type |-> "Unknown", properties |-> NoProperties]

\* the handle has a getSceneObjects method: the editor and the playground
\* integration scripts define one, the documentation script does not
HasGetSceneObjects(api) == api.type \in {"editor", "playground"}

\* mentionedNames.map(name => ...).filter(...) of extractMentionedObjects
ResolveNames(names, flattened) ==
  LET found(i) == FindByName(flattened, names[i])
      mapped == [i \in 1..Len(names) |->
                   IF found(i) # 0
                   THEN [name |-> flattened[found(i)].name, type |-> flattened[found(i)].type,
                         properties |-> flattened[found(i)].properties]
                   ELSE UnknownObject(names[i])]
  IN SelectSeq(mapped, LAMBDA obj : obj.type # "Unknown"
                                      \/ \E i \in 1..Len(names) : names[i] = obj.name)

\* ChatPanel.extractMentionedObjects(content), the active pane type being
\* active, its handle api and its scene sc
extractMentionedObjects(content, active, api, sc) ==
  LET mentionedNames == MatchAll(content) IN
  IF Len(mentionedNames) = 0 THEN <<>>
  ELSE IF active = Null \/ (active # "editor" /\ active # "playground") THEN <<>>
  ELSE IF api = NoAPI \/ ~HasGetSceneObjects(api) THEN <<>>
  ELSE IF sc.throws THEN [i \in 1..Len(mentionedNames) |-> UnknownObject(mentionedNames[i])]
  ELSE ResolveNames(mentionedNames, flattenObjects(sc, ChildrenOf(sc, 0), 0))

\* IframeManager.registerIframe(type, iframe)
registerIframe(t, iframe) ==
  /\ iframeMap' = iframeMap \cup {t}
  /\ iframeOf' = [iframeOf EXCEPT ![t] = iframe]
  /\ activeIframe' = iframe
  /\ activeType' = t

\* a switchTo without the forEach
HideNone(disp) == disp

\* the forEach of switchTo: every registered iframe gets display 'none'
HideAll(disp) ==
  [i \in Iframes |-> IF \E t \in iframeMap : iframeOf[t] = i THEN "none" ELSE disp[i]]

\* IframeManager.switchTo(type)
switchTo(t) ==
  /\ display' = IF t \in iframeMap
                THEN [HideAll(display) EXCEPT ![iframeOf[t]] = "block"]
                ELSE HideAll(display)
  /\ activeIframe' = IF t \in iframeMap THEN iframeOf[t] ELSE activeIframe
  /\ activeType' = IF t \in iframeMap THEN t ELSE activeType
  /\ UNCHANGED <<iframeMap, iframeOf>>

\* (mutant) a removeIframe that clears the active pane whatever type is removed
removeIframeAlwaysClears(t) ==
  /\ iframeMap' = iframeMap \ {t}
  /\ iframeOf' = [iframeOf EXCEPT ![t] = NoIframe]
  /\ activeIframe' = IF t \in iframeMap THEN NoIframe ELSE activeIframe
  /\ activeType' = IF t \in iframeMap THEN Null ELSE activeType
  /\ UNCHANGED display

\* IframeManager.removeIframe(type); iframe.remove() detaches the element and
\* leaves its style alone
removeIframe(t) ==
  /\ iframeMap' = iframeMap \ {t}
  /\ iframeOf' = [iframeOf EXCEPT ![t] = NoIframe]
  /\ activeIframe' = IF t \in iframeMap /\ activeType = t THEN NoIframe ELSE activeIframe
  /\ activeType' = IF t \in iframeMap /\ activeType = t THEN Null ELSE activeType
  /\ UNCHANGED display

\* App.loadIframe(type) up to the await of the load promise
loadIframe(a, t) ==
  /\ acq[a].phase = "idle"
  /\ \A b \in Acquires : b < a => acq[b].phase # "idle"
  /\ UNCHANGED <<chatVars, injectedTypes, integrationAPIs, scripts, cleared,
                 isSending, awaiting, draft, scene, mentions, menuVars>>
  /\ IF t \in iframeMap
     THEN switchTo(t) /\ UNCHANGED acq
     ELSE /\ acq' = [acq EXCEPT ![a] = [@ EXCEPT !.phase = "loading", !.type = t]]
          /\ display' = [display EXCEPT ![a] = "none"]
          /\ UNCHANGED <<iframeMap, activeType, iframeOf, activeIframe>>

\* the load handler of App.loadIframe: the pane is registered, then the
\* integration is injected inside a try/catch
handleLoad(a, obs) ==
  /\ acq[a].phase = "loading"
  /\ display' = [display EXCEPT ![a] = "block"]
  /\ registerIframe(acq[a].type, a)
  /\ injectIntegrationBody(a, acq[a].type, obs)
  /\ UNCHANGED <<chatVars, isSending, awaiting, draft, scene, mentions, menuVars>>

\* (mutant) the injection without its own try/catch
LoadFailureShownNoInnerCatch(phase) == phase \in {"loadFailed", "rejected"}

\* the outer catch of App.loadIframe runs and the pane shows "Failed to load":
\* for a rejected load promise, not for a rejected injectIntegration, which the
\* inner catch turns into a warning
LoadFailureShown(phase) == phase = "loadFailed"

\* the error event or the 60 s timeout of the load promise: the outer catch
\* of App.loadIframe renders the error, nothing is registered
loadError(a) ==
  /\ acq[a].phase = "loading"
  /\ acq' = [acq EXCEPT ![a] = [@ EXCEPT !.phase = "loadFailed", !.err = "LoadError"]]
  /\ UNCHANGED <<chatVars, injectedTypes, integrationAPIs, scripts, cleared, panelVars>>

\* the user edits the chat input
TypeText(text) ==
  /\ draft = <<>>
  /\ text # <<>>
  /\ draft' = text
  /\ UNCHANGED <<chatVars, bridgeVars, registryVars, isSending, awaiting,
                 scene, mentions, menuVars>>

\* extractMentionedObjects applied to the chat input
ExtractMentions ==
  /\ draft # <<>>
  /\ mentions' = extractMentionedObjects(draft, activeType,
                                         IF activeType = Null THEN NoAPI
                                         ELSE getAPI(activeType), scene)
  /\ lastOp' = "extractMentionedObjects"
  /\ UNCHANGED <<agents, agentConfig, defaultAgentId, persistChatHistory, now, messages, stored,
                 currentAbortController, aborted, call>>
  /\ UNCHANGED <<bridgeVars, registryVars, isSending, awaiting, draft, scene, menuVars>>

InitMentions ==
  /\ ChatIdle
  /\ BridgeIdle
  /\ RegistryIdle
  /\ isSending = FALSE
  /\ awaiting = {}
  /\ draft = <<>>
  /\ scene \in Scenes(MaxNodes) \cup {ThrowingScene}
  /\ mentions = <<>>
  /\ MenuIdle

NextMentions ==
  \/ loadIframe(1, "editor")
  \/ handleLoad(1, "ready")
  \/ injectScript(1, TRUE, "ready")
  \/ InjectedAdd(1)
  \/ \E text \in InputTexts : TypeText(text)
  \/ ExtractMentions

SpecMentions == InitMentions /\ [][NextMentions]_vars

\* the handle of the active pane is there and lists the scene
SceneListed ==
  /\ activeType \in {"editor", "playground"}
  /\ getAPI(activeType) # NoAPI
  /\ ~scene.throws

TokenSet(text) == {MatchAll(text)[i] : i \in 1..Len(MatchAll(text))}

\* the descriptor of the first node, in pre-order, that is named name
FirstNamed(sc, name) ==
  LET flat == flattenObjects(sc, ChildrenOf(sc, 0), 0)
      hits == {i \in 1..Len(flat) : flat[i].name = name}
      first == CHOOSE i \in hits : \A j \in hits : i <= j
  IN IF hits = {} THEN UnknownObject(name)
     ELSE [name |-> name, type |-> flat[first].type, properties |-> flat[first].properties]

\* C17: with a handle that lists the scene, the mentions resolved from a text
\* are exactly one descriptor per distinct @word token of the text, each being
\* the descriptor of the first node of the flattened scene with that name, or
\* {name, type: Unknown} when no node has that name.
C17_OneDescriptorPerDistinctMention ==
  [][ExtractMentions /\ SceneListed =>
       /\ Len(mentions') = Cardinality(TokenSet(draft))
       /\ \A n \in TokenSet(draft) :
            \E i \in 1..Len(mentions') : mentions'[i] = FirstNamed(scene, n)
       /\ \A i \in 1..Len(mentions') :
            /\ mentions'[i].name \in TokenSet(draft)
            /\ mentions'[i] = FirstNamed(scene, mentions'[i].name)]_vars


\* ---------------------------------------------------------------------------
\* ChatPanel: sending a message
\* ---------------------------------------------------------------------------

Whitespace == {" "}

RECURSIVE TrimStart(_)
TrimStart(text) ==
  IF text # <<>> /\ Head(text) \in Whitespace THEN TrimStart(Tail(text)) ELSE text

RECURSIVE TrimEnd(_)
TrimEnd(text) ==
  IF text # <<>> /\ text[Len(text)] \in Whitespace
  THEN TrimEnd(SubSeq(text, 1, Len(text) - 1)) ELSE text

\* String.prototype.trim
Trim(text) == TrimEnd(TrimStart(text))

\* `@${obj.name} (${obj.type})${props}` of ChatService.sendMessage
ObjectDetail(obj) ==
  <<"@">> \o obj.name \o <<" (", obj.type, ")">>
    \o (IF obj.properties # NoProperties THEN <<"\nProperties: ", obj.properties>> ELSE <<>>)

\* mentionedObjects.map(...).join('\n\n')
RECURSIVE ObjectDetails(_)
ObjectDetails(objs) ==
  IF objs = <<>> THEN <<>>
  ELSE IF Len(objs) = 1 THEN ObjectDetail(objs[1])
  ELSE ObjectDetail(objs[1]) \o <<"\n\n">> \o ObjectDetails(Tail(objs))

\* (mutant) getSceneObjects() called outside the try block
SceneErrorUncaught(sc) == sc.throws

\* an exception of getSceneObjects() leaves extractMentionedObjects: the call
\* is inside the try block, whose catch returns a list
SceneErrorEscapes(sc) == FALSE

\* extractMentionedObjects(content) raises
extractRaises(content, active, api, sc) ==
  /\ Len(MatchAll(content)) > 0
  /\ active \in {"editor", "playground"}
  /\ api # NoAPI /\ HasGetSceneObjects(api)
  /\ SceneErrorEscapes(sc)

ActiveAPI == IF activeType = Null THEN NoAPI ELSE getAPI(activeType)

\* ChatPanel.sendMessage() up to the await of chatService.sendMessage, the
\* chat input holding draft and currentAgentId being agentId
PanelSend(c, agentId) ==
  /\ ~isSending
  /\ call[c].pc = "idle"
  /\ \A d \in Calls : d < c => call[d].pc # "idle"
  /\ LET content == Trim(draft) IN
     /\ content # <<>>
     /\ IF extractRaises(content, activeType, ActiveAPI, scene)
        THEN /\ lastOp' = "extractRaised"
             /\ UNCHANGED <<agents, agentConfig, defaultAgentId, persistChatHistory, now, messages,
                            stored, currentAbortController, aborted, call>>
             /\ UNCHANGED <<bridgeVars, panelVars>>
        ELSE LET mentionedObjects ==
                   extractMentionedObjects(content, activeType, ActiveAPI, scene)
             IN /\ mentions' = mentionedObjects
                /\ isSending' = TRUE
                /\ draft' = <<>>
                /\ awaiting' = awaiting \cup {c}
                /\ sendMessageBody(c, content, agentId, ObjectDetails(mentionedObjects),
                                   2 * c - 1, 2 * c)
                /\ UNCHANGED <<bridgeVars, registryVars, scene, menuVars>>

\* the catch and the finally block of ChatPanel.sendMessage, once the awaited
\* call has settled
PanelSettle(c) ==
  /\ c \in awaiting
  /\ call[c].pc \in {"resolved", "rejected"}
  /\ awaiting' = awaiting \ {c}
  /\ isSending' = FALSE
  /\ UNCHANGED <<chatVars, bridgeVars, registryVars, draft, scene, mentions, menuVars>>

\* ChatPanel.abortMessage()
abortMessage ==
  /\ isSending
  /\ abortBody
  /\ isSending' = FALSE
  /\ UNCHANGED <<bridgeVars, registryVars, awaiting, draft, scene, mentions, menuVars>>

PanelTexts == { <<"@", "a">>, <<" ", "@", "b", " ">>, <<"a">>, <<" ">> }

PanelScenes ==
  { NoScene, ThrowingScene,
    [throws |-> FALSE,
     nodes |-> <<[par |-> 0, kind |-> [name |-> <<"a">>, type |-> "Mesh",
                                       properties |-> NoProperties]]>>] }

PaneTypes == {"editor", "docs"}

InitPanel ==
  /\ agents = {"a1"}
  /\ defaultAgentId = "a1"
  /\ agentConfig = ConfigsFor(agents, defaultAgentId, NoTraits)
  /\ persistChatHistory = TRUE
  /\ now = 0
  /\ messages = <<>>
  /\ stored = <<>>
  /\ currentAbortController = NoController
  /\ aborted = {}
  /\ call = [c \in Calls |-> IdleCall]
  /\ lastOp = "init"
  /\ BridgeIdle
  /\ RegistryIdle
  /\ isSending = FALSE
  /\ awaiting = {}
  /\ draft = <<>>
  /\ scene \in PanelScenes
  /\ mentions = <<>>
  /\ MenuIdle

NextPanel ==
  \/ \E t \in PaneTypes : loadIframe(1, t)
  \/ \E obs \in Access : handleLoad(1, obs)
  \/ loadError(1)
  \/ \E obs \in Access : LoadEvent(1, obs)
  \/ \E obs \in Access : RetryTimer(1, obs)
  \/ DOMContentLoaded(1)
  \/ \E appendOk \in BOOLEAN, r \in ApiStates : injectScript(1, appendOk, r)
  \/ \E r \in ApiStates : PollTimer(1, StallDelay, r)
  \/ InjectedAdd(1)
  \/ \E text \in PanelTexts : TypeText(text)
  \/ \E c \in HistCalls : PanelSend(c, Undefined)
  \/ \E c \in HistCalls : FetchAborted(c)
  \/ \E c \in HistCalls : FetchFails(c, "network")
  \/ \E c \in HistCalls : PanelSettle(c)
  \/ abortMessage

SpecPanel == InitPanel /\ [][NextPanel]_vars

\* a step of ChatPanel.sendMessage past its guards
SendPressed == \E c \in HistCalls : PanelSend(c, Undefined)

\* the user message of call c in the log
UserMessageOf(c) ==
  LET hits == {i \in 1..Len(messages) : messages[i].ref = 2 * c - 1}
  IN messages[CHOOSE i \in hits : TRUE]

IsPrefix(p, t) == Len(p) <= Len(t) /\ SubSeq(t, 1, Len(p)) = p

\* C18: a send from the panel never fails in mention resolution: whatever the
\* text, the active pane, its handle and the outcome of the scene listing,
\* the resolution yields a list and ChatService.sendMessage is called with the
\* trimmed text; without an active scene pane or a handle the list is empty,
\* and when the listing throws every mention is an Unknown descriptor.
C18_MentionsNeverBlockSend ==
  [][SendPressed =>
       /\ lastOp' = "sendMessage"
       /\ \E c \in HistCalls :
            /\ call[c].pc = "idle" /\ call'[c].pc = "fetch"
            /\ IsPrefix(Trim(draft), UserMessageOf(c).content')
       /\ (activeType \notin {"editor", "playground"} \/ ActiveAPI = NoAPI)
            => mentions' = <<>>
       /\ (activeType \in {"editor", "playground"} /\ ActiveAPI # NoAPI /\ scene.throws)
            => /\ Len(mentions') = Len(MatchAll(Trim(draft)))
               /\ \A i \in 1..Len(mentions') : mentions'[i].type = "Unknown"]_vars

\* a send went out although the scene listing of the active pane throws
C18_Witness ==
  /\ lastOp = "sendMessage"
  /\ activeType = "editor"
  /\ ActiveAPI # NoAPI
  /\ scene.throws
  /\ Len(mentions) = 1 /\ mentions[1].type = "Unknown"
  /\ \E c \in HistCalls : call[c].pc = "fetch"


\* acquire a has failed: injectIntegration rejected
AcquireFailed(a) == acq[a].phase = "rejected"

\* C19: when the acquire of a pane fails (access error, injection error, check
\* error or timeout), pane loading does not fail: the pane is registered and
\* active and has no handle, no load failure is shown, and a send pressed
\* afterwards calls ChatService.sendMessage with an empty mention list.
C19_AcquireFailureIsNotFatal ==
  [][/\ AcquireFailed(1)' =>
          /\ ~LoadFailureShown(acq'[1].phase)
          /\ acq'[1].type \in iframeMap'
          /\ activeType' = acq'[1].type
          /\ integrationAPIs'[acq'[1].type] = NoAPI
     /\ (SendPressed /\ AcquireFailed(1)) =>
          /\ lastOp' = "sendMessage"
          /\ mentions' = <<>>
          /\ \E c \in HistCalls : call[c].pc = "idle" /\ call'[c].pc = "fetch"]_vars

\* a text that mentions an object was sent from the editor pane after its
\* acquire had timed out
C19_Witness ==
  /\ AcquireFailed(1) /\ acq[1].err = "Timeout"
  /\ activeType = "editor" /\ "editor" \in iframeMap
  /\ lastOp = "sendMessage"
  /\ mentions = <<>>
  /\ \E c \in HistCalls : call[c].pc = "fetch" /\ UserMessageOf(c).content = <<"@", "a">>


\* ---------------------------------------------------------------------------
\* ChatPanel: the search of the mention menu
\* ---------------------------------------------------------------------------

MaxTreeNodes == 4
MaxQueryLen == 2

\* "A" is an upper-case letter and "a" its lower-case form; "b" is lower-case
SearchChars == {"a", "A", "b"}

LowerChar(ch) == IF ch = "A" THEN "a" ELSE ch

\* String.prototype.toLowerCase
ToLowerCase(text) == [i \in 1..Len(text) |-> LowerChar(text[i])]

\* String.prototype.includes
Includes(text, part) ==
  \E k \in 0..(Len(text) - Len(part)) : SubSeq(text, k + 1, k + Len(part)) = part

SearchQueries == UNION {[1..k -> SearchChars] : k \in 0..MaxQueryLen}

SearchKinds ==
  { [name |-> <<"A", "b">>, type |-> <<"b">>],
    [name |-> <<"b">>,      type |-> <<"b", "b">>] }

SearchTrees ==
  { [throws |-> FALSE, nodes |-> f] :
      f \in UNION { { g \in [1..k -> [par : 0..(k - 1), kind : SearchKinds]] :
                        \A i \in 1..k : g[i].par < i } : k \in 0..MaxTreeNodes } }

\* searchInObject(obj) of filterObjects, for node i
RECURSIVE searchInObject(_, _, _)
searchInObject(sc, i, query) ==
  LET nameMatch == Includes(ToLowerCase(sc.nodes[i].kind.name), query)
      typeMatch == Includes(ToLowerCase(sc.nodes[i].kind.type), query)
      children == ChildrenOf(sc, i)
  IN IF nameMatch \/ typeMatch THEN TRUE
     ELSE IF Len(children) > 0
     THEN \E k \in 1..Len(children) : searchInObject(sc, children[k], query)
     ELSE FALSE

\* an object of the menu: node i with the children array it is given
MenuObject(sc, i, children) ==
  [id |-> i, name |-> sc.nodes[i].kind.name, type |-> sc.nodes[i].kind.type,
   children |-> children]

\* the array objList as it is, every object with all its children
RECURSIVE Objects(_, _)
Objects(sc, objList) ==
  IF objList = <<>> THEN <<>>
  ELSE <<MenuObject(sc, Head(objList), Objects(sc, ChildrenOf(sc, Head(objList))))>>
         \o Objects(sc, Tail(objList))

\* filterRecursive(objList) of filterObjects
RECURSIVE filterRecursive(_, _, _)
filterRecursive(sc, objList, query) ==
  IF objList = <<>> THEN <<>>
  ELSE LET obj == Head(objList)
           children == ChildrenOf(sc, obj)
           rest == filterRecursive(sc, Tail(objList), query)
       IN IF searchInObject(sc, obj, query)
          THEN <<MenuObject(sc, obj, IF Len(children) > 0
                                     THEN filterRecursive(sc, children, query)
                                     ELSE <<>>)>> \o rest
          ELSE IF Len(children) > 0
          THEN LET filteredChildren == filterRecursive(sc, children, query)
               IN IF Len(filteredChildren) > 0
                  THEN <<MenuObject(sc, obj, filteredChildren)>> \o rest
                  ELSE rest
          ELSE rest

\* (mutant) only the top-level array is filtered, children are left as they are
filterObjectsTopLevel(sc, query) ==
  SelectSeq(Objects(sc, ChildrenOf(sc, 0)), LAMBDA obj : searchInObject(sc, obj.id, query))

\* ChatPanel.filterObjects(objects, query)
filterObjects(sc, query) ==
  IF query = <<>> THEN Objects(sc, ChildrenOf(sc, 0))
  ELSE filterRecursive(sc, ChildrenOf(sc, 0), query)

\* one keystroke in the search field: a character typed at the end, or the
\* last character deleted
OneEdit(old, new) ==
  \/ Len(new) = Len(old) + 1 /\ SubSeq(new, 1, Len(old)) = old
  \/ Len(old) = Len(new) + 1 /\ SubSeq(old, 1, Len(new)) = new

\* the input handler of the menu's search field, its value being value
SearchInput(value) ==
  /\ OneEdit(searchQuery, value)
  /\ searchQuery' = value
  /\ mentionList' = filterObjects(scene, ToLowerCase(value))
  /\ lastOp' = "searchInput"
  /\ UNCHANGED <<agents, agentConfig, defaultAgentId, persistChatHistory, now, messages, stored,
                 currentAbortController, aborted, call>>
  /\ UNCHANGED <<bridgeVars, registryVars, isSending, awaiting, draft, scene,
                 mentions>>

InitSearch ==
  /\ ChatIdle
  /\ BridgeIdle
  /\ RegistryIdle
  /\ isSending = FALSE
  /\ awaiting = {}
  /\ draft = <<>>
  /\ scene \in SearchTrees
  /\ mentions = <<>>
  /\ MenuIdle

NextSearch == \E value \in SearchQueries : SearchInput(value)

SpecSearch == InitSearch /\ [][NextSearch]_vars

\* node i is node j or one of its ancestors
RECURSIVE IsAncestorOrSelf(_, _, _)
IsAncestorOrSelf(sc, i, j) ==
  j # 0 /\ (i = j \/ IsAncestorOrSelf(sc, i, sc.nodes[j].par))

\* the name or the type of node j contains the query, letter case ignored
ContainsQuery(sc, j, query) ==
  \/ Includes(ToLowerCase(sc.nodes[j].kind.name), ToLowerCase(query))
  \/ Includes(ToLowerCase(sc.nodes[j].kind.type), ToLowerCase(query))

\* the nodes the search has to keep
KeptNodes(sc, query) ==
  {i \in 1..Len(sc.nodes) :
     \E j \in 1..Len(sc.nodes) : IsAncestorOrSelf(sc, i, j) /\ ContainsQuery(sc, j, query)}

\* the nodes of the tree in pre-order, each with its parent
RECURSIVE PreOrder(_, _)
PreOrder(sc, ids) ==
  IF ids = <<>> THEN <<>>
  ELSE <<[id |-> Head(ids), par |-> sc.nodes[Head(ids)].par,
          name |-> sc.nodes[Head(ids)].kind.name, type |-> sc.nodes[Head(ids)].kind.type]>>
         \o PreOrder(sc, ChildrenOf(sc, Head(ids))) \o PreOrder(sc, Tail(ids))

\* the objects of a listed forest in pre-order, each with its parent in the forest
RECURSIVE ListedPreOrder(_, _)
ListedPreOrder(objs, parent) ==
  IF objs = <<>> THEN <<>>
  ELSE <<[id |-> objs[1].id, par |-> parent, name |-> objs[1].name, type |-> objs[1].type]>>
         \o ListedPreOrder(objs[1].children, objs[1].id) \o ListedPreOrder(Tail(objs), parent)

\* C20: after a search the menu lists the sub-forest of the tree made of the
\* nodes whose name or type contains the query, letter case ignored, or that
\* have such a descendant: each kept node under its own parent, in the tree's
\* order; with the empty query that is the whole tree.
C20_SearchKeepsMatchesAndAncestors ==
  lastOp = "searchInput" =>
    /\ ListedPreOrder(mentionList, 0)
         = SelectSeq(PreOrder(scene, ChildrenOf(scene, 0)),
                     LAMBDA e : e.id \in KeptNodes(scene, searchQuery))
    /\ searchQuery = <<>> => mentionList = Objects(scene, ChildrenOf(scene, 0))

\* the tree [A[B[C]], D] searched with a query that only C matches, in another
\* letter case: A, B and C are listed, D is not
C20_Witness ==
  /\ lastOp = "searchInput"
  /\ Len(scene.nodes) = 4
  /\ [i \in 1..4 |-> scene.nodes[i].par] = <<0, 1, 2, 0>>
  /\ [i \in 1..4 |-> scene.nodes[i].kind.name] = <<<<"b">>, <<"b">>, <<"A", "b">>, <<"b">>>>
  /\ searchQuery = <<"a">>
  /\ [i \in 1..Len(ListedPreOrder(mentionList, 0)) |-> ListedPreOrder(mentionList, 0)[i].id]
       = <<1, 2, 3>>


\* ---------------------------------------------------------------------------
\* ChatPanel: the list of the mention menu and insertMention
\* ---------------------------------------------------------------------------

MaxMenuNodes == 3

\* object names: a word, two words, none, and one with a double quote in it
MenuKinds ==
  { [name |-> <<"a">>,            type |-> "Mesh",  properties |-> NoProperties],
    [name |-> <<"a", " ", "b">>,  type |-> "Mesh",  properties |-> NoProperties],
    [name |-> <<>>,               type |-> "Group", properties |-> NoProperties],
    [name |-> <<"a", "\"", "b">>, type |-> "Group", properties |-> NoProperties] }

MenuScenes ==
  { [throws |-> FALSE, nodes |-> f] :
      f \in UNION { { g \in [1..k -> [par : 0..(k - 1), kind : MenuKinds]] :
                        \A i \in 1..k : g[i].par < i } : k \in 0..MaxMenuNodes } }

\* obj.name || `Unnamed ${obj.type}`
DisplayName(obj) == IF obj.name # <<>> THEN obj.name ELSE <<"Unnamed", " ", obj.type>>

\* getAttribute('data-object-name') of an item written as
\* data-object-name="${escapeHtml(displayName)}": escapeHtml leaves a double
\* quote as it is, and the attribute value ends at the first one
RECURSIVE AttributeValue(_)
AttributeValue(text) ==
  IF text = <<>> \/ Head(text) = "\"" THEN <<>>
  ELSE <<Head(text)>> \o AttributeValue(Tail(text))

\* ChatPanel.renderObjectList(objects): one item per flattened object
renderObjectList(sc, objects) ==
  LET flattened == flattenObjects(sc, objects, 0)
  IN [i \in 1..Len(flattened) |->
        [id |-> flattened[i].id,
         name |-> AttributeValue(DisplayName(flattened[i])),
         type |-> flattened[i].type,
         indent |-> flattened[i].level]]

\* ChatPanel.showMentionMenu(); mentionList is the items of the open menu,
\* empty while the menu is closed
showMentionMenu ==
  /\ mentionList' =
       IF mentionList # <<>> THEN <<>>
       ELSE IF activeType = Null \/ (activeType # "editor" /\ activeType # "playground")
       THEN mentionList
       ELSE IF getAPI(activeType) = NoAPI \/ ~HasGetSceneObjects(getAPI(activeType))
       THEN mentionList
       ELSE IF scene.throws \/ Len(ChildrenOf(scene, 0)) = 0 THEN mentionList
       ELSE renderObjectList(scene, ChildrenOf(scene, 0))
  /\ lastOp' = "showMentionMenu"
  /\ UNCHANGED <<agents, agentConfig, defaultAgentId, persistChatHistory, now, messages, stored,
                 currentAbortController, aborted, call>>
  /\ UNCHANGED <<bridgeVars, registryVars, isSending, awaiting, draft, scene, mentions,
                 searchQuery>>

\* the text of the chat input after insertMention(objectName), the cursor and
\* the empty selection being at cursor
insertMention(value, cursor, objectName) ==
  SubSeq(value, 1, cursor) \o <<"@">> \o objectName \o <<" ">>
    \o SubSeq(value, cursor + 1, Len(value))

\* a click on item k of the open menu, the chat input being empty
ClickMentionItem(k) ==
  /\ k \in 1..Len(mentionList)
  /\ mentionList[k].name # <<>>
  /\ draft = <<>>
  /\ draft' = insertMention(draft, Len(draft), mentionList[k].name)
  /\ mentionList' = <<>>
  /\ lastOp' = "insertMention"
  /\ UNCHANGED <<agents, agentConfig, defaultAgentId, persistChatHistory, now, messages, stored,
                 currentAbortController, aborted, call>>
  /\ UNCHANGED <<bridgeVars, registryVars, isSending, awaiting, scene, mentions, searchQuery>>

InitMenu ==
  /\ ChatIdle
  /\ BridgeIdle
  /\ RegistryIdle
  /\ isSending = FALSE
  /\ awaiting = {}
  /\ draft = <<>>
  /\ scene \in MenuScenes
  /\ mentions = <<>>
  /\ MenuIdle

NextMenu ==
  \/ loadIframe(1, "editor")
  \/ handleLoad(1, "ready")
  \/ injectScript(1, TRUE, "ready")
  \/ InjectedAdd(1)
  \/ showMentionMenu
  \/ \E k \in 1..MaxMenuNodes : ClickMentionItem(k)
  \/ ExtractMentions

SpecMenu == InitMenu /\ [][NextMenu]_vars

\* the nesting level of node i: 0 for a root
RECURSIVE Depth(_, _)
Depth(sc, i) == IF sc.nodes[i].par = 0 THEN 0 ELSE 1 + Depth(sc, sc.nodes[i].par)

\* the position of node i in the open menu
ItemOf(i) == CHOOSE p \in 1..Len(mentionList) : mentionList[p].id = i

\* C32: the flattened list holds every node of the scene tree exactly once,
\* each with its nesting level as depth (0 for a root, its parent's plus one
\* for a child), in pre-order: a node before its descendants, and the subtree
\* of a node before the subtree of each of its later siblings.
C32_FlattenIsPreOrderWithDepth ==
  mentionList # <<>> =>
    LET n == Len(scene.nodes) IN
    /\ Len(mentionList) = n
    /\ \A i \in 1..n : Cardinality({p \in 1..Len(mentionList) : mentionList[p].id = i}) = 1
    /\ \A p \in 1..Len(mentionList) : mentionList[p].indent = Depth(scene, mentionList[p].id)
    /\ \A i, j \in 1..n : IsAncestorOrSelf(scene, i, j) /\ i # j => ItemOf(i) < ItemOf(j)
    /\ \A x, y \in 1..n :
         scene.nodes[x].par = scene.nodes[y].par /\ x < y
           => \A u, v \in 1..n :
                IsAncestorOrSelf(scene, x, u) /\ IsAncestorOrSelf(scene, y, v)
                  => ItemOf(u) < ItemOf(v)

\* the forest [1[3], 2] is listed as 1, 3, 2 with depths 0, 1, 0
C32_Witness ==
  /\ Len(scene.nodes) = 3
  /\ [i \in 1..3 |-> scene.nodes[i].par] = <<0, 0, 1>>
  /\ Len(mentionList) = 3
  /\ [p \in 1..3 |-> mentionList[p].id] = <<1, 3, 2>>
  /\ [p \in 1..3 |-> mentionList[p].indent] = <<0, 1, 0>>

\* C38: the text that a click on an item of the menu puts into the empty chat
\* input is resolved by extractMentionedObjects to exactly one descriptor, and
\* it has the name and the type of the object of that item.
C38_InsertedMentionRoundTrips ==
  [][\A k \in 1..MaxMenuNodes :
       ClickMentionItem(k)
         => LET obj == scene.nodes[mentionList[k].id].kind
                resolved == extractMentionedObjects(draft', activeType,
                                                    getAPI(activeType), scene)
            IN /\ Len(resolved) = 1
               /\ resolved[1].name = obj.name
               /\ resolved[1].type = obj.type]_vars


\* ---------------------------------------------------------------------------
\* ChatService: the system prompt
\* ---------------------------------------------------------------------------

TraitNameSet == {TraitNames[i] : i \in 1..Len(TraitNames)}

\* a trait is undefined, or a slider value: the ends, the middle and its neighbours
TraitValues == {Absent, 0, 49, 50, 51, 100}

InitPrompt ==
  /\ agents = {"a1"}
  /\ \E traits \in [TraitNameSet -> TraitValues] :
       agentConfig = ConfigsFor(agents, "a1", traits)
  /\ defaultAgentId = "a1"
  /\ persistChatHistory = TRUE
  /\ now = 0
  /\ messages = <<>>
  /\ stored = <<>>
  /\ currentAbortController = NoController
  /\ aborted = {}
  /\ call = [c \in Calls |-> IdleCall]
  /\ lastOp = "init"
  /\ BridgeIdle
  /\ PanelIdle

NextPrompt ==
  \/ \E c \in HistCalls : sendMessage(c, <<"hi">>, Undefined, <<>>, 2 * c - 1, 2 * c)
  \/ \E c \in HistCalls : FetchFails(c, "network")

SpecPrompt == InitPrompt /\ [][NextPrompt]_vars

\* the traits that yield a line, in the declared order
DescribedTraits(traits) ==
  SelectSeq(TraitNames, LAMBDA t : traits[t] # Absent /\ traits[t] # 50)

\* the personality section the claim describes
PersonalitySection(traits) ==
  LET ts == DescribedTraits(traits)
      line(t) == IF traits[t] > 50
                 THEN TraitDescription(PositivePhrase[t], traits[t], t)
                 ELSE TraitDescription(NegativePhrase[t], 100 - traits[t], NegativePole[t])
  IN IF ts = <<>> THEN <<>>
     ELSE <<"Personality traits:\n">> \o Join([i \in 1..Len(ts) |-> line(ts[i])], "\n")
            \o <<"\n\n">>

\* C21: the system prompt sent with a request is the introduction, the
\* personality section and the closing; the section holds one line for each
\* present trait whose value is not 50, in the order curious, organized,
\* friendly, zany, sarcastic, with the positive phrase and v% for v > 50 and
\* the negative phrase and (100 - v)% for v < 50, and is left out, heading
\* included, when no trait yields a line.
C21_SystemPromptFromTraits ==
  \A c \in Calls :
    call[c].pc = "fetch" =>
      LET agent == agentConfig[call[c].asst.agentId] IN
        /\ call[c].request[1].role = "system"
        /\ call[c].request[1].content
             = PromptIntro(agent.name) \o PersonalitySection(agent.personalityTraits)
                 \o PromptClosing

\* a request is in flight for an agent with a positive, a negative, a neutral
\* and an absent trait
C21_Witness ==
  /\ call[1].pc = "fetch"
  /\ agentConfig["a1"].personalityTraits
       = [curious |-> 51, organized |-> 49, friendly |-> 50, zany |-> Absent,
          sarcastic |-> 100]
  /\ Len(call[1].request[1].content) = 3 + 1 + (3 * 6 + 2) + 1 + 1


(***************************************************************************)
(* The iframe registry on its own: IframeManager driven by its callers.    *)
(* A caller registers an element either as the unit tests do (a fresh      *)
(* element, style untouched) or as App.handleLoad does (display 'block'    *)
(* first).                                                                 *)
(***************************************************************************)
RegistryTypes == {"editor", "playground", "manual"}

RegisterFresh(t, i) ==
  /\ registerIframe(t, i)
  /\ UNCHANGED display

RegisterLoaded(t, i) ==
  /\ display' = [display EXCEPT ![i] = "block"]
  /\ registerIframe(t, i)

RegistryFrame ==
  UNCHANGED <<chatVars, bridgeVars, isSending, awaiting, draft, scene, mentions, menuVars>>

InitRegistry ==
  /\ ChatIdle
  /\ BridgeIdle
  /\ PanelIdle

\* what the registry operations below leave alone besides the registry; acq
\* records, for an element made by createIframe, the type it was made for
CreateFrame ==
  /\ UNCHANGED <<agents, agentConfig, defaultAgentId, persistChatHistory, now, messages, stored,
                 currentAbortController, aborted, call>>
  /\ UNCHANGED <<injectedTypes, integrationAPIs, scripts, cleared>>
  /\ UNCHANGED <<isSending, awaiting, draft, scene, mentions, menuVars>>

\* IframeManager.createIframe(type, url) up to its return: the registered
\* element becomes the active one, or element a is created, hidden, with its
\* load listener
createIframe(a, t) ==
  /\ lastOp' = "createIframe"
  /\ CreateFrame
  /\ IF t \in iframeMap
     THEN /\ activeIframe' = iframeOf[t]
          /\ activeType' = t
          /\ UNCHANGED <<iframeMap, iframeOf, display, acq>>
     ELSE /\ acq[a].phase = "idle"
          /\ \A b \in Iframes : b < a => acq[b].phase # "idle"
          /\ acq' = [acq EXCEPT ![a] = [@ EXCEPT !.phase = "created", !.type = t]]
          /\ display' = [display EXCEPT ![a] = "none"]
          /\ UNCHANGED <<iframeMap, activeType, iframeOf, activeIframe>>

\* (mutant) a load listener without iframeMap.set
createIframeLoadUnregistered(a) ==
  /\ acq[a].phase = "created"
  /\ lastOp' = "load"
  /\ CreateFrame
  /\ activeIframe' = a
  /\ activeType' = acq[a].type
  /\ display' = [display EXCEPT ![a] = "block"]
  /\ UNCHANGED <<iframeMap, iframeOf, acq>>

\* the load listener that createIframe put on element a; the listener stays
\* on the element, so it runs on every load event of it, whenever that is
createIframeLoad(a) ==
  /\ acq[a].phase = "created"
  /\ lastOp' = "load"
  /\ CreateFrame
  /\ iframeMap' = iframeMap \cup {acq[a].type}
  /\ iframeOf' = [iframeOf EXCEPT ![acq[a].type] = a]
  /\ activeIframe' = a
  /\ activeType' = acq[a].type
  /\ display' = [display EXCEPT ![a] = "block"]
  /\ UNCHANGED acq

\* IframeManager.clear()
IframeManagerClear ==
  /\ lastOp' = "clear"
  /\ CreateFrame
  /\ iframeMap' = {}
  /\ iframeOf' = [t \in TypeSet |-> NoIframe]
  /\ activeIframe' = NoIframe
  /\ activeType' = Null
  /\ UNCHANGED <<display, acq>>

NextRegistry ==
  \/ \E t \in RegistryTypes, i \in Iframes : RegisterFresh(t, i) /\ RegistryFrame
  \/ \E t \in RegistryTypes, i \in Iframes : RegisterLoaded(t, i) /\ RegistryFrame
  \/ \E t \in RegistryTypes : switchTo(t) /\ RegistryFrame
  \/ \E t \in RegistryTypes : removeIframe(t) /\ RegistryFrame
  \/ \E a \in Iframes, t \in RegistryTypes : createIframe(a, t)
  \/ \E a \in Iframes : createIframeLoad(a)
  \/ IframeManagerClear

SpecRegistry == InitRegistry /\ [][NextRegistry]_vars

\* C34: the active type is none exactly when the active iframe is none, and
\* an active type is registered, the active iframe being the element that
\* is registered for it.
C34_ActivePairMatchesRegistry ==
  /\ (activeType = Null) <=> (activeIframe = NoIframe)
  /\ activeType # Null => activeType \in iframeMap /\ activeIframe = iframeOf[activeType]

\* two elements were created for the editor before either had loaded; the
\* second one was shown first, and the load of the first one came last
C34_Witness ==
  /\ lastOp = "load"
  /\ acq[1].phase = "created" /\ acq[1].type = "editor"
  /\ acq[2].phase = "created" /\ acq[2].type = "editor"
  /\ display[2] = "block"
  /\ iframeMap = {"editor"}
  /\ iframeOf["editor"] = 1
  /\ activeType = "editor"
  /\ activeIframe = 1

\* a pane is visible unless its display is 'none'
Visible(disp, i) == disp[i] # "none"

RegistryUnchanged ==
  /\ activeType' = activeType
  /\ activeIframe' = activeIframe
  /\ iframeMap' = iframeMap
  /\ \A u \in iframeMap : iframeOf'[u] = iframeOf[u]

\* C22: switchTo for a type that is not registered changes nothing: the
\* active type, the active iframe, the registered types and the visibility
\* of every registered iframe stay as they were.
C22_SwitchToUnregisteredIsNoOp ==
  [][\A t \in RegistryTypes :
       (t \notin iframeMap /\ switchTo(t))
         => /\ RegistryUnchanged
            /\ \A u \in iframeMap :
                 Visible(display', iframeOf[u]) = Visible(display, iframeOf[u])]_vars

\* C23: switchTo for a registered type makes it the active type and its
\* iframe the active iframe, shows that iframe and leaves every other
\* registered iframe hidden.
C23_SwitchToShowsOnlyTarget ==
  [][\A t \in RegistryTypes :
       (t \in iframeMap /\ switchTo(t))
         => /\ activeType' = t
            /\ activeIframe' = iframeOf[t]
            /\ iframeMap' = iframeMap
            /\ Visible(display', iframeOf[t])
            /\ \A u \in iframeMap :
                 iframeOf[u] # iframeOf[t] => ~Visible(display', iframeOf[u])]_vars

\* two panes registered, the second one switched to: the first is hidden
C23_Witness ==
  /\ iframeMap = {"editor", "playground"}
  /\ iframeOf["editor"] = 1
  /\ iframeOf["playground"] = 2
  /\ activeType = "playground"
  /\ activeIframe = 2
  /\ display[1] = "none"
  /\ display[2] = "block"

\* C24: removeIframe unregisters the type, clears the active type and the
\* active iframe exactly when that type was the active one, keeps every
\* other registration, and changes nothing for an unregistered type.
C24_RemoveUnregistersOnlyThatType ==
  [][\A t \in RegistryTypes :
       removeIframe(t)
         => IF t \in iframeMap
            THEN /\ iframeMap' = iframeMap \ {t}
                 /\ \A u \in iframeMap \ {t} : iframeOf'[u] = iframeOf[u]
                 /\ IF activeType = t
                    THEN activeType' = Null /\ activeIframe' = NoIframe
                    ELSE activeType' = activeType /\ activeIframe' = activeIframe
            ELSE RegistryUnchanged /\ display' = display]_vars

\* the active pane was removed while another one stays registered
C24_Witness ==
  /\ iframeMap = {"playground"}
  /\ iframeOf["playground"] = 2
  /\ iframeOf["editor"] = NoIframe
  /\ activeType = Null
  /\ activeIframe = NoIframe
(***************************************************************************)
(* Message ids.  generateMessageId joins Date.now() with a suffix drawn    *)
(* from Math.random(); the suffix is an input of every send, and the clock *)
(* moves between sends.                                                    *)
(***************************************************************************)
MaxTime == 2
MaxRandom == 2
IdSends == 2

IdCalls == 1..IdSends
Randoms == 1..MaxRandom

\* the millisecond clock advances
Tick ==
  /\ now < MaxTime
  /\ now' = now + 1
  /\ lastOp' = "tick"
  /\ UNCHANGED <<agents, agentConfig, defaultAgentId, persistChatHistory, messages, stored,
                 currentAbortController, aborted, call>>
  /\ UNCHANGED <<bridgeVars, panelVars>>

InitIds ==
  /\ agents = {"a1"}
  /\ defaultAgentId = "a1"
  /\ agentConfig = ConfigsFor(agents, defaultAgentId, NoTraits)
  /\ persistChatHistory = TRUE
  /\ now = 0
  /\ messages = <<>>
  /\ stored = <<>>
  /\ currentAbortController = NoController
  /\ aborted = {}
  /\ call = [c \in Calls |-> IdleCall]
  /\ lastOp = "init"
  /\ BridgeIdle
  /\ PanelIdle

NextIds ==
  \/ Tick
  \/ \E c \in IdCalls, r1 \in Randoms, r2 \in Randoms :
       sendMessage(c, <<"hi">>, Undefined, <<>>, r1, r2)
  \/ \E c \in IdCalls : FetchFails(c, "network")

SpecIds == InitIds /\ [][NextIds]_vars

\* the order of two ids: by their time part, then by their suffix
IdLess(a, b) == a[1] < b[1] \/ (a[1] = b[1] /\ a[2] < b[2])

\* C25: the ids of the log are strictly increasing in creation order (so
\* no two entries share an id), the user message and the placeholder of
\* one send included.
C25_MessageIdsStrictlyIncreasing ==
  \A i \in 1..Len(messages), j \in 1..Len(messages) :
    i < j => IdLess(messages[i].id, messages[j].id)
(***************************************************************************)
(* The agent store: AgentService over its two localStorage keys.  agents   *)
(* is the set of stored ids, agentConfig their records, defaultAgentId the *)
(* value under DEFAULT_AGENT_KEY.  Ids are non-empty strings, as the       *)
(* settings form produces them.                                            *)
(***************************************************************************)
AgentFrame ==
  /\ UNCHANGED <<persistChatHistory, now, messages, stored, currentAbortController,
                 aborted, call>>
  /\ UNCHANGED <<bridgeVars, panelVars>>

\* a setDefaultAgent that writes the key and leaves the flags alone
FlagsKept(ids, cfg, id) == cfg

\* the forEach of setDefaultAgent over the stored agents cfg
FlagsFor(ids, cfg, id) ==
  [a \in AllAgentIds |-> IF a \in ids THEN [cfg[a] EXCEPT !.isDefault = (a = id)] ELSE cfg[a]]

\* AgentService.saveAgent(agent, skipDefaultUpdate)
saveAgent(id, agent, skipDefaultUpdate) ==
  LET ids == agents \cup {id}
      cfg == [agentConfig EXCEPT ![id] = agent]
  IN /\ lastOp' = "saveAgent"
     /\ agents' = ids
     /\ agentConfig' = IF agent.isDefault /\ ~skipDefaultUpdate
                       THEN FlagsFor(ids, cfg, id) ELSE cfg
     /\ defaultAgentId' = IF agent.isDefault THEN id ELSE defaultAgentId
     /\ AgentFrame

\* a deleteAgent that leaves DEFAULT_AGENT_KEY alone
DefaultAfterDeleteKept(def, id) == def

\* "If deleted agent was default, clear default"
DefaultAfterDelete(def, id) == IF def = id THEN Null ELSE def

\* AgentService.deleteAgent(id); lastOp carries the returned value
deleteAgent(id) ==
  /\ IF id \notin agents
     THEN /\ lastOp' = "deleteAgent:false"
          /\ UNCHANGED <<agents, agentConfig, defaultAgentId>>
     ELSE /\ lastOp' = "deleteAgent:true"
          /\ agents' = agents \ {id}
          /\ agentConfig' = [agentConfig EXCEPT ![id] = NoConfig]
          /\ defaultAgentId' = DefaultAfterDelete(defaultAgentId, id)
  /\ AgentFrame

\* AgentService.setDefaultAgent(id)
setDefaultAgent(id) ==
  /\ lastOp' = "setDefaultAgent"
  /\ defaultAgentId' = id
  /\ agentConfig' = FlagsFor(agents, agentConfig, id)
  /\ UNCHANGED agents
  /\ AgentFrame

AgentCalls == 1..AgentSends

InitAgents ==
  /\ ChatIdle
  /\ BridgeIdle
  /\ PanelIdle

NextAgents ==
  \/ \E id \in AllAgentIds, isDefault \in BOOLEAN, skip \in BOOLEAN :
       saveAgent(id, [name |-> id, personalityTraits |-> NoTraits, isDefault |-> isDefault], skip)
  \/ \E id \in AllAgentIds : deleteAgent(id)
  \/ \E id \in AllAgentIds : setDefaultAgent(id)
  \/ \E c \in AgentCalls, agentId \in AllAgentIds \cup {Undefined} :
       sendMessage(c, <<"hi">>, agentId, <<>>, 2 * c - 1, 2 * c)
  \/ \E c \in AgentCalls : FetchFails(c, "network")

SpecAgents == InitAgents /\ [][NextAgents]_vars

\* C26: setDefaultAgent(id) for a stored id makes id the default id and
\* that agent the default agent, sets its isDefault flag, clears the flag
\* of every other stored agent, and neither adds nor removes an agent.
C26_SetDefaultMarksExactlyOne ==
  [][\A id \in AllAgentIds :
       (id \in agents /\ setDefaultAgent(id))
         => /\ defaultAgentId' = id
            /\ getDefaultAgent' = id
            /\ agents' = agents
            /\ \A a \in agents :
                 agentConfig'[a] = [agentConfig[a] EXCEPT !.isDefault = (a = id)]]_vars

\* the default moved from a1 to a2 with three agents stored
C26_Witness ==
  /\ lastOp = "setDefaultAgent"
  /\ agents = AllAgentIds
  /\ defaultAgentId = "a2"
  /\ agentConfig["a2"].isDefault
  /\ ~agentConfig["a1"].isDefault
  /\ ~agentConfig["a3"].isDefault

\* sendMessage without an agentId, by call c
SendWithoutAgent(c) ==
  \E r1 \in {2 * c - 1}, r2 \in {2 * c} : sendMessage(c, <<"hi">>, Undefined, <<>>, r1, r2)

\* C27: deleteAgent(id) returns false and changes neither the store nor
\* the default id when id is not stored; otherwise it returns true, removes
\* exactly that agent and clears the default id exactly when it was id; a
\* sendMessage without agentId that follows the deletion of the default
\* agent is rejected with "No agent selected".
C27_DeleteClearsDefaultOnlyIfDeleted ==
  [][/\ \A id \in AllAgentIds :
          deleteAgent(id)
            => IF id \notin agents
               THEN /\ lastOp' = "deleteAgent:false"
                    /\ UNCHANGED <<agents, agentConfig, defaultAgentId>>
               ELSE /\ lastOp' = "deleteAgent:true"
                    /\ agents' = agents \ {id}
                    /\ \A a \in agents' : agentConfig'[a] = agentConfig[a]
                    /\ defaultAgentId' = IF defaultAgentId = id THEN Null ELSE defaultAgentId
     /\ \A c \in AgentCalls :
          (lastOp = "deleteAgent:true" /\ defaultAgentId = Null /\ SendWithoutAgent(c))
            => call'[c].pc = "rejected" /\ call'[c].err = "NoAgent" /\ messages' = messages]_vars

\* the default agent a1 was deleted while a2, saved with its flag set,
\* stays stored (only a deletion takes the default id back to null), and
\* the send that followed was rejected
C27_Witness ==
  /\ lastOp = "sendMessage"
  /\ agents = {"a2"}
  /\ agentConfig["a2"].isDefault
  /\ defaultAgentId = Null
  /\ call[1].pc = "rejected"
  /\ call[1].err = "NoAgent"

\* the stored agents whose isDefault flag is set
FlaggedAgents == {a \in agents : agentConfig[a].isDefault}

\* C39: at most one stored agent has its isDefault flag set, and
\* getDefaultAgent() returns an agent exactly when some stored agent has the
\* flag set, that agent being the one returned.
C39_DefaultPointerAgreesWithFlags ==
  /\ Cardinality(FlaggedAgents) <= 1
  /\ (getDefaultAgent # Null) <=> (FlaggedAgents # {})
  /\ getDefaultAgent # Null => FlaggedAgents = {getDefaultAgent}

\* C28: once a frame with done=true has been processed the call consumes
\* nothing more: no further token is taken off the transport and nothing is
\* appended to the assistant content or handed to onChunk.
C28_NoConsumptionAfterTerminalFrame ==
  [][\A c \in Calls :
       call[c].sawDone
         => /\ call'[c].wire = call[c].wire
            /\ call'[c].fullContent = call[c].fullContent
            /\ call'[c].chunks = call[c].chunks]_vars
(***************************************************************************)
(* Cancellation seen from the read loop.  The body stream is whatever      *)
(* ollamaService.chat returned; a stream that takes no notice of the       *)
(* signal (a buffered body, a stream not backed by fetch) still settles    *)
(* reads with data after the token was cancelled.                          *)
(***************************************************************************)
CancelSends == 2

CancelCalls == 1..CancelSends

\* reader.read() settles with whole lines although the token is cancelled
ReadLate(c, k) ==
  /\ c \in aborted
  /\ call[c].pc = "read"
  /\ k \in 1..Len(call[c].wire)
  /\ call[c].wire[k].k = "nl"
  /\ ReadChunkBody(c, k)

CancelWires == {Encode(<<Frame("He", FALSE), Frame("llo", FALSE), Frame(NoContent, TRUE)>>)}

NextCancel ==
  \/ \E c \in CancelCalls : sendMessage(c, <<"hi">>, Undefined, <<>>, 2 * c - 1, 2 * c)
  \/ \E c \in CancelCalls : FetchAborted(c)
  \/ \E c \in CancelCalls, w \in CancelWires : FetchOk(c, w)
  \/ \E c \in CancelCalls, k \in 1..MaxWireLen : ReadLines(c, k)
  \/ \E c \in CancelCalls, k \in 1..MaxWireLen : ReadLate(c, k)
  \/ \E c \in CancelCalls : ReadDone(c)
  \/ \E c \in CancelCalls : ReadAborted(c)
  \/ abort

SpecCancel == InitStream /\ [][NextCancel]_vars

\* C29: a call whose token has been cancelled leaves its read loop at the
\* next check: its next step ends the call, it does not go on to await
\* another read.
C29_CancelledSessionStopsAtCheck ==
  [][\A c \in Calls :
       (c \in aborted /\ call[c].pc = "read" /\ call'[c] # call[c])
         => call'[c].pc \in {"resolved", "rejected"}]_vars
\* a is b with some entries left out, b's order kept
RECURSIVE IsSubsequence(_, _)
IsSubsequence(a, b) ==
  IF a = <<>> THEN TRUE
  ELSE IF b = <<>> THEN FALSE
  ELSE IF Head(a) = Head(b) THEN IsSubsequence(Tail(a), Tail(b))
  ELSE IsSubsequence(a, Tail(b))

\* the entries of the log window other than the message object ref, as
\* the transport sees an entry
WindowWithout(msgs, ref) ==
  LET win == getRecentMessages(msgs)
      keep == SelectSeq(win, LAMBDA m : m.ref # ref)
  IN [i \in 1..Len(keep) |-> [role |-> keep[i].role, content |-> keep[i].content]]

\* the step of call c from idle to its pending fetch
RequestIssued(c) == call[c].pc = "idle" /\ call'[c].pc = "fetch"

\* C30: the list handed to the transport starts with the one system
\* message, which holds the system prompt; ends with a user message holding
\* the enriched content of this send; holds in between only entries of the
\* last 10 log entries, in log order and without this send's placeholder;
\* and has at most 10 messages besides the system message.
C30_RequestIsPromptWindowAndInput ==
  [][\A c \in Calls :
       RequestIssued(c)
         => LET req == call'[c].request
                n == Len(req)
                placeholder == call'[c].asst
                user == CHOOSE i \in 1..Len(messages') : messages'[i].ref = 2 * c - 1
            IN /\ n >= 2
               /\ req[1] = [role |-> "system",
                            content |-> buildSystemPrompt(agentConfig[placeholder.agentId])]
               /\ \A i \in 2..n : req[i].role # "system"
               /\ req[n] = [role |-> "user", content |-> messages'[user].content]
               /\ IsPrefix(<<"hi">>, req[n].content)
               /\ IsSubsequence(SubSeq(req, 2, n - 1),
                                WindowWithout(messages', placeholder.ref))
               /\ n - 1 <= MAX_MESSAGES]_vars

(***************************************************************************)
(* The panel sending more than once: the user types, sends with the button *)
(* or the Enter key (both end in ChatPanel.sendMessage), and presses the   *)
(* button again while isSending is set (ChatPanel.abortMessage).           *)
(***************************************************************************)
PanelSends == 2

PanelCalls == 1..PanelSends

InitSends == InitPanel /\ scene = NoScene

\* the user types into the chat input, which is disabled while isSending
TypeIntoInput(text) == ~isSending /\ TypeText(text)

NextSends ==
  \/ TypeIntoInput(<<"a">>)
  \/ \E c \in PanelCalls : PanelSend(c, Undefined)
  \/ \E c \in PanelCalls : FetchAborted(c)
  \/ \E c \in PanelCalls : FetchFails(c, "network")
  \/ \E c \in PanelCalls, w \in CancelWires : FetchOk(c, w)
  \/ \E c \in PanelCalls, k \in 1..MaxWireLen : ReadLines(c, k)
  \/ \E c \in PanelCalls : ReadDone(c)
  \/ \E c \in PanelCalls : ReadAborted(c)
  \/ \E c \in PanelCalls : PanelSettle(c)
  \/ abortMessage

SpecSends == InitSends /\ [][NextSends]_vars

\* the ChatService.sendMessage calls of the panel that have not settled
PendingSends == {c \in awaiting : call[c].pc \notin {"resolved", "rejected"}}

\* C36: at most one ChatService.sendMessage call of the panel is pending, and
\* isSending is true exactly while the panel awaits such a call.
C36_OnePanelSendAtATime ==
  /\ Cardinality(PendingSends) <= 1
  /\ isSending <=> awaiting # {}



\* a send into a log of eleven notes with a mention: nine window entries,
\* the user message of the send among them, and the enriched input last
C30_Witness ==
  /\ call[1].pc = "fetch"
  /\ Len(messages) = 13
  /\ Len(call[1].request) = 11
  /\ call[1].request[10].content = call[1].request[11].content
  /\ Len(call[1].request[11].content) > 1
\* C35: no log entry goes out twice in the list handed to the transport:
\* the list has no more messages besides the system message than the log
\* window has entries besides the placeholder, and the user message of the
\* send is in it exactly once.
C35_NoEntrySentTwice ==
  [][\A c \in Calls :
       RequestIssued(c)
         => LET req == call'[c].request
                n == Len(req)
                user == CHOOSE i \in 1..Len(messages') : messages'[i].ref = 2 * c - 1
                sent == [role |-> "user", content |-> messages'[user].content]
            IN /\ n - 1 <= Len(WindowWithout(messages', call'[c].asst.ref))
               /\ Cardinality({i \in 2..n : req[i] = sent}) = 1]_vars
(***************************************************************************)
(* Overlapping sends with and without mentioned objects, none of which     *)
(* gets an answer before the next one starts.                              *)
(***************************************************************************)
AppendSends == 2

AppendCalls == 1..AppendSends

NextAppend ==
  \/ \E c \in AppendCalls, agentId \in AgentIds \cup {Undefined}, content \in Texts,
        mentioned \in {<<>>, <<"@cube (Mesh)">>} :
       sendMessage(c, content, agentId, mentioned, 2 * c - 1, 2 * c)
  \/ \E c \in AppendCalls : FetchAborted(c)
  \/ \E c \in AppendCalls : FetchFails(c, "network")
  \/ abort

SpecAppend == InitChat /\ [][NextAppend]_vars

\* the content sendMessage gives the user message: the text, then the
\* block of mentioned objects when there is one
EnrichedContent(content, mentioned) ==
  IF Len(mentioned) > 0
  THEN content \o <<"[Mentioned Scene Objects:">> \o mentioned \o <<"]">>
  ELSE content

\* C31: a sendMessage that resolves an agent appends two entries and
\* changes no other: the user message, holding the text followed by the
\* block of mentioned objects when descriptors were passed and the text
\* alone otherwise, and right after it the empty assistant message with the
\* id and name of the resolved agent; so also when sends overlap.
C31_SendAppendsUserThenAssistant ==
  [][\A c \in Calls, agentId \in AgentIds \cup {Undefined}, content \in Texts,
        mentioned \in {<<>>, <<"@cube (Mesh)">>} :
       (sendMessage(c, content, agentId, mentioned, 2 * c - 1, 2 * c)
          /\ ResolveAgent(agentId) # Null)
         => LET n == Len(messages)
                agent == ResolveAgent(agentId)
            IN /\ Len(messages') = n + 2
               /\ SubSeq(messages', 1, n) = messages
               /\ messages'[n + 1].role = "user"
               /\ messages'[n + 1].content = EnrichedContent(content, mentioned)
               /\ messages'[n + 2].role = "assistant"
               /\ messages'[n + 2].content = <<>>
               /\ messages'[n + 2].agentId = agent
               /\ messages'[n + 2].agentName = agentConfig[agent].name
               /\ messages'[n + 2] = call'[c].asst]_vars

\* a second send with mentions was issued while the first was still
\* pending: its two entries follow those of the first
C31_Witness ==
  /\ Len(messages) = 4
  /\ call[1].pc = "fetch"
  /\ call[2].pc = "fetch"
  /\ messages[3].ref = 3
  /\ messages[3].content = <<"hi", "[Mentioned Scene Objects:", "@cube (Mesh)", "]">>
  /\ messages[4] = call[2].asst
  /\ messages[4].agentName = "a1"
====
